---- MODULE Spec2Model ----
(***************************************************************************)
(* A model of statmorph.py: the construction of one SourceMorphology       *)
(* object (its lazily evaluated statistics, the two quality flags and the  *)
(* final segmap cross-check), the batch loop source_morphology over a      *)
(* shared image, and the radius helper _radius_at_fraction_of_total.       *)
(*                                                                         *)
(* Numbers are exact: a statistic is a pair <<num, den>> (the rational     *)
(* num/den, den > 0), <<0, 0>> stands for a non-finite value (NaN).        *)
(* Floating-point rounding is not modelled.  The outcomes of the external  *)
(* numeric routines (aperture photometry, smoothing, minimisers, root      *)
(* finders) are inputs, drawn with \E where the code calls them.           *)
(*                                                                         *)
(* The stamp is seen through the NPix pixels of the row that holds the     *)
(* source, numbered 1..NPix; the other rows are background and reach the   *)
(* model only through the outcome of the skybox search.                    *)
(*                                                                         *)
(* Stages followed on their own, each with its own specification: the      *)
(* radii r_20 and r_80 on a curve of growth (SpecGrowth), the bad-pixel    *)
(* filter (SpecOutlier), sn_per_pixel (SpecSnp), the Petrosian radius      *)
(* scan (SpecPetro), the skybox search on a two-dimensional stamp          *)
(* (SpecSky), stage 1 of multimode (SpecMid) and both of its stages        *)
(* (SpecMultimode), the MID segmap on a small two-dimensional stamp        *)
(* (SpecSeg), rmax and half_light_radius (SpecHalf), the stamp's slice     *)
(* (SpecStamp) and the minimization of the asymmetry (SpecAsym).           *)
(***************************************************************************)
EXTENDS Integers, Sequences, FiniteSets, TLC

\* ---------------------------------------------------------------- bounds
NPix == 2
MaxFaults == 1
GiniPix == 3
MaxLead == 1
MaxDip == 1
NRows == 3
NCols == 4
NLabels == 2
GrowthPts == 3
MaxBeyond == 2
StampSize == 5
MidPix == 4
MidLevels == 2
ImageSide == 4

\* ------------------------------------------------------ program constants
Invalid == -99
npoints == 100
n_sigma_outlier == 10

\* ---------------------------------------------------------------- values
Sentinel == <<Invalid, 1>>
NaN == <<0, 0>>
Zero == <<0, 1>>
Good == <<1, 1>>

Max(a, b) == IF a >= b THEN a ELSE b
Min(a, b) == IF a <= b THEN a ELSE b
Abs(a) == IF a < 0 THEN -a ELSE a

Pixels == 1..NPix
PixVals == {0, 1}

IsFinite(v) == v[2] # 0
IsSentinel(v) == v[2] # 0 /\ v[1] = Invalid * v[2]
IsPositive(v) == v[2] # 0 /\ v[1] > 0

\* ------------------------------------------------------------- variables
VARIABLES
  pc,           \* where the constructor stands
  k,            \* index into quantities of _calculate_morphology's loop
  flag,         \* self.flag
  flag_sersic,  \* self.flag_sersic
  cached,       \* the lazy properties held in the instance dictionary
  val,          \* their values
  ncomp,        \* how often each lazy property's body has run (history)
  img,          \* _cutout_stamp_maskzeroed along the source's row
  ratio,        \* segmap_overlap_ratio as <<num, den>>
  faults,       \* degenerate outcomes of external routines drawn so far
  lastRead      \* the last value handed out by __getitem__

\* One call of _radius_at_fraction_of_total.
VARIABLES
  rpc,              \* where the call stands
  total_sum,        \* sign of the flux sum within r_total
  curve,            \* how curval behaves along r_grid
  scan_i,           \* the scan index
  r_min,            \* <<>> for None, else <<grid index>>
  r_max,            \* <<>> for None, else <<grid index>>
  rflag,            \* the local flag
  ret               \* what the call returns: <<kind, from, to>>

\* One run of source_morphology over the caller's arrays.
VARIABLES
  bpc,              \* where the constructor of the current label stands
  label,            \* the label being processed
  caller_image,     \* the caller's image
  caller_variance,  \* the caller's variance array
  variance_given,   \* variance is not None
  caller_mask,      \* the caller's mask (the masked positions)
  caller_segmap,    \* the caller's segmentation map
  remove_outliers,  \* the option
  self_mask,        \* the constructor's local mask
  results,          \* what each finished SourceMorphology holds
  caller_image0,    \* the image as the caller had it (history)
  caller_variance0, \* the variance as the caller had it (history)
  zeroed            \* positions the bad-pixel filter has zeroed (history)

\* r_20, r_80 and concentration over one curve of growth.
VARIABLES
  gpc,              \* which of the three is evaluated next
  growth,           \* the flux within each radius of r_grid, and the total
  cas               \* r_20, r_80 and the sign of the concentration

\* self._variance along the source's row: <<>> for None.
VARIABLES
  variance

\* One call of _rpetro_circ_generic or _rpetro_ellip_generic.
VARIABLES
  ppc,              \* where the call stands
  solver,           \* "circ" or "ellip"
  profile,          \* how the Petrosian function behaves along the scan
  r_step,           \* r = r_inner + r_step * dr
  a_min,            \* <<>> for None, else <<step>>
  a_max,            \* <<>> for None, else <<step>>
  rpetro,           \* what the call returns: <<kind, from, to>>
  evals             \* evaluations of the Petrosian function (history)

\* The skybox search, and the sky test of _segmap_shape_asym after it.
VARIABLES
  spc,              \* where the search stands
  stamp,            \* the stamp's shape, labelled pixels and masked pixels
  border_size,      \* self._border_size
  skybox_size,      \* self._skybox_size
  skybox_size0,     \* the skybox_size option as configured (history)
  boxslice,         \* what _slice_skybox returns: <<i, j, size>>
  shape_sky         \* the sky test of _segmap_shape_asym

\* Stage 1 of multimode.
VARIABLES
  mpc,              \* where the stage stands
  cutout_mid,       \* _cutout_mid along the source's row
  mid_stepsize,     \* <<num, den>>
  multimode_M,      \* what multimode returns
  q_final           \* the quantile that stage 2 ends at

\* _segmap_mid on a small two-dimensional stamp.
VARIABLES
  qpc,              \* where _segmap_mid stands
  cutout,           \* _cutout_stamp_maskzeroed_no_bg_nonnegative
  sorted_nonneg,    \* _sorted_pixelvals_stamp_no_bg_nonnegative
  segment,          \* the pixels that ~_mask_stamp_no_bg selects
  eta,              \* self._eta as <<num, den>>
  maxval_pos,       \* (ic, jc), the brightest pixel of the segment
  segmap_mid,       \* what _segmap_mid returns
  q_root            \* the quantile opt.brentq returned (history)

\* rmax and half_light_radius.
VARIABLES
  hpc,              \* which of the two is evaluated next
  segmap_shape,     \* the pixels of _segmap_shape_asym
  asym_center,      \* np.floor(self._asymmetry_center) as <<y, x>>
  rmax4,            \* 4 * rmax ** 2
  half_light        \* half_light_radius: <<kind, grid index>>

\* _slice_stamp.
VARIABLES
  tpc,              \* where _slice_stamp stands
  props,            \* the image shape, photutils' centroid and bbox, and
                    \* self._cutout_extent as <<num, den>>
  slice_stamp       \* <<y start, y stop, x start, x stop>>

\* opt.fmin over _asymmetry_function.
VARIABLES
  apc,              \* where the minimization stands
  center_0,         \* the initial guess
  asym_image,       \* the pixels of the image that are not 0
  asym_mask,        \* self._mask_stamp
  asym_kind,        \* 'cas', 'outer' or 'shape'
  aperture,         \* the squared radius, and whether the radii are valid
  sky_asym,         \* self._sky_asymmetry as <<num, den>>
  best,             \* the minimizer's best point: <<center, value>>
  last              \* the last evaluation: <<center, value, calls of
                    \* do_photometry>>

pipelineVars ==
  <<pc, k, flag, flag_sersic, cached, val, ncomp, img, ratio, faults,
    lastRead>>

\* The object's fields other than self.flag.
pipelineRest ==
  <<pc, k, flag_sersic, cached, val, ncomp, img, ratio, faults, lastRead>>

radiusVars == <<rpc, total_sum, curve, scan_i, r_min, r_max, rflag, ret>>

batchVars ==
  <<bpc, label, caller_image, caller_variance, variance_given, caller_mask,
    caller_segmap, remove_outliers, self_mask, results, caller_image0,
    caller_variance0, zeroed>>

growthVars == <<gpc, growth, cas>>

petroVars == <<ppc, solver, profile, r_step, a_min, a_max, rpetro, evals>>

skyVars ==
  <<spc, stamp, border_size, skybox_size, skybox_size0, boxslice, shape_sky>>

midVars == <<mpc, cutout_mid, mid_stepsize, multimode_M, q_final>>

segVars ==
  <<qpc, cutout, sorted_nonneg, segment, eta, maxval_pos, segmap_mid, q_root>>

\* The stages added last.
halfVars == <<hpc, segmap_shape, asym_center, rmax4, half_light>>

stampVars == <<tpc, props, slice_stamp>>

asymVars ==
  <<apc, center_0, asym_image, asym_mask, asym_kind, aperture, sky_asym,
    best, last>>

lateVars == <<segVars, halfVars, stampVars, asymVars>>

\* The stages that are followed on their own.
stageVars ==
  <<growthVars, variance, petroVars, skyVars, midVars, lateVars>>

\* What a step of the object's construction leaves alone.
others == <<radiusVars, batchVars, stageVars>>

vars == <<pipelineVars, radiusVars, batchVars, stageVars>>

\* ------------------------------------------------------ lazy properties
\* _calculate_morphology's list, in its order.
quantities ==
  << "rpetro_circ", "rpetro_ellip", "gini", "m20", "sn_per_pixel",
     "concentration", "asymmetry", "smoothness", "multimode", "intensity",
     "deviation", "half_light_radius", "rmax", "outer_asymmetry",
     "shape_asymmetry", "sersic_index" >>

Statistics == {quantities[i] : i \in 1..Len(quantities)}

Segmaps == {"_segmap_gini", "_segmap_mid", "_segmap_shape_asym"}

Internal ==
  {"_slice_skybox", "_rpetro_circ_centroid", "_asymmetry_center",
   "_intensity_sums", "r_20", "r_80"}

Lazies == Statistics \cup Segmaps \cup Internal

\* The lazy properties each body reads.
Deps(p) ==
  CASE p = "_slice_skybox" -> {}
    [] p = "_rpetro_circ_centroid" -> {}
    [] p = "_asymmetry_center" -> {"_rpetro_circ_centroid", "_slice_skybox"}
    [] p = "rpetro_circ" -> {"_asymmetry_center"}
    [] p = "rpetro_ellip" -> {"_asymmetry_center"}
    [] p = "_segmap_gini" -> {"rpetro_ellip"}
    [] p = "gini" -> {"_segmap_gini"}
    [] p = "m20" -> {"_segmap_gini"}
    [] p = "sn_per_pixel" -> {"_segmap_gini", "_slice_skybox"}
    [] p = "r_20" -> {"_asymmetry_center", "rpetro_circ"}
    [] p = "r_80" -> {"_asymmetry_center", "rpetro_circ"}
    [] p = "concentration" -> {"r_20", "r_80"}
    [] p = "asymmetry" ->
         {"_asymmetry_center", "_rpetro_circ_centroid", "_slice_skybox"}
    [] p = "smoothness" ->
         {"rpetro_circ", "_asymmetry_center", "_slice_skybox"}
    [] p = "_segmap_mid" -> {}
    [] p = "multimode" -> {"_segmap_mid"}
    [] p = "_intensity_sums" -> {"_segmap_mid"}
    [] p = "intensity" -> {"_intensity_sums"}
    [] p = "deviation" -> {"_intensity_sums", "_segmap_mid"}
    [] p = "_segmap_shape_asym" ->
         {"_asymmetry_center", "rpetro_ellip", "_slice_skybox"}
    [] p = "rmax" -> {"_asymmetry_center", "_segmap_shape_asym"}
    [] p = "half_light_radius" -> {"_asymmetry_center", "rmax"}
    [] p = "outer_asymmetry" ->
         {"_asymmetry_center", "half_light_radius", "rmax", "_slice_skybox"}
    [] p = "shape_asymmetry" ->
         {"_asymmetry_center", "_segmap_shape_asym", "rmax"}
    [] p = "sersic_index" -> {"half_light_radius"}

RECURSIVE Closure(_)
Closure(p) == {p} \cup UNION {Closure(d) : d \in Deps(p)}

\* A dictionary that never holds a property: every access runs the body.
NeverCached(p) == FALSE

\* lazyproperty.__get__: the body runs only when the instance dictionary
\* does not hold the property yet.
IsCached(p) == p \in cached

ClosureOf == [p \in Lazies |-> Closure(p)]

SegmapClosure == UNION {Closure(s) : s \in Segmaps}

StatisticsClosure == UNION {Closure(s) : s \in Statistics}

\* What the running step of the constructor (or a reader) asks for.
Demanded(p) ==
  CASE pc = "calc" -> p \in ClosureOf[quantities[k]]
    [] pc = "check" -> p \in SegmapClosure
    [] pc = "done" -> p \in StatisticsClosure
    [] OTHER -> FALSE

\* Line 1181: "(self.r_20 == -99.0) or (self.r_80 == -99.0)" does not
\* evaluate r_80 when r_20 is the sentinel.
ShortCircuit ==
  IsCached("r_20") /\ val["r_20"] = Sentinel

Needs(p) ==
  IF p = "concentration" /\ ShortCircuit THEN {"r_20"} ELSE Deps(p)

Enter(p) ==
  /\ Demanded(p)
  /\ ~IsCached(p)
  /\ \A d \in Needs(p) : IsCached(d)
  /\ p = "r_80" => IsCached("r_20") /\ ~ShortCircuit

\* A loop that stops one quantity short of the list.
AdvanceEarly(p) ==
  IF pc = "calc" /\ p = quantities[k]
  THEN IF k >= Len(quantities) - 1
       THEN pc' = "check" /\ k' = k
       ELSE pc' = pc /\ k' = k + 1
  ELSE UNCHANGED <<pc, k>>

\* for q in quantities: tmp = self[q]
Advance(p) ==
  IF pc = "calc" /\ p = quantities[k]
  THEN IF k = Len(quantities)
       THEN pc' = "check" /\ k' = k
       ELSE pc' = pc /\ k' = k + 1
  ELSE UNCHANGED <<pc, k>>

Store(p, v) ==
  /\ cached' = cached \cup {p}
  /\ val' = [val EXCEPT ![p] = v]
  /\ ncomp' = [ncomp EXCEPT ![p] = Min(@ + 1, 2)]
  /\ Advance(p)

\* A body that raises: the constructor is left, no object is returned.
Raise ==
  /\ pc' = "raised"
  /\ UNCHANGED <<k, flag, flag_sersic, cached, val, ncomp, faults>>

\* self.flag = 1 when f = 1, untouched when f = 0.
SetFlag(f) == flag' = IF f = 1 THEN 1 ELSE flag

\* ------------------------------------------------- pure helper functions
RECURSIVE SumSeq(_)
SumSeq(s) == IF s = <<>> THEN 0 ELSE Head(s) + SumSeq(Tail(s))

\* np.sort of a sequence: insertion into the sorted tail.
Insert(v, s) ==
  LET c == Cardinality({i \in 1..Len(s) : s[i] < v})
  IN SubSeq(s, 1, c) \o <<v>> \o SubSeq(s, c + 1, Len(s))

RECURSIVE Sort(_)
Sort(s) == IF s = <<>> THEN <<>> ELSE Insert(Head(s), Sort(Tail(s)))

MinOf(S) == CHOOSE x \in S : \A y \in S : x <= y

\* image[segmap] on flattened arrays: the selected values in pixel order.
RECURSIVE Select(_, _)
Select(image, S) ==
  IF S = {} THEN <<>>
  ELSE LET x == MinOf(S) IN <<image[x]>> \o Select(image, S \ {x})

\* np.where(segmap, image, 0.0)
Masked(image, S) == [x \in DOMAIN image |-> IF x \in S THEN image[x] ELSE 0]

\* ndi.label with the 8-connected footprint, along the row: the component
\* of S that holds x is the run of consecutive pixels of S around x.
Component(S, x) ==
  {y \in S : \A z \in Min(x, y)..Max(x, y) : z \in S}

Components(S) == {Component(S, x) : x \in S}

\* gini without line 762's np.abs.
GiniNoAbs(image, segmap) ==
  LET sorted_pixelvals == Sort(Select(image, segmap))
      n == Len(sorted_pixelvals)
      total == SumSeq(sorted_pixelvals)
  IN IF n <= 1 \/ total = 0
     THEN [v |-> Sentinel, f |-> 1]
     ELSE [v |-> << SumSeq([i \in 1..n |->
                              (2 * i - n - 1) * sorted_pixelvals[i]]),
                    (n - 1) * total >>,
           f |-> 0]

\* The value of gini (lines 759-772) and the flag it raises.
Gini(image, segmap) ==
  LET sorted_pixelvals ==
        Sort(Select([x \in DOMAIN image |-> Abs(image[x])], segmap))
      n == Len(sorted_pixelvals)
      total == SumSeq(sorted_pixelvals)
  IN IF n <= 1 \/ total = 0
     THEN [v |-> Sentinel, f |-> 1]
     ELSE [v |-> << SumSeq([i \in 1..n |->
                              (2 * i - n - 1) * sorted_pixelvals[i]]),
                    (n - 1) * total >>,
           f |-> 0]

\* The value of m20 (lines 779-815) and the flag it raises.  With all the
\* flux in one row the second central moment is mu_20 about the flux
\* centroid xc = M1/M0: second_moment = (M0*M2 - M1^2)/M0.
M20(image, segmap) ==
  LET im == Masked(image, segmap)
      xs == DOMAIN image
      seq == Select(im, xs)
      M0 == SumSeq(seq)
      M1 == SumSeq([i \in 1..Len(seq) |-> i * seq[i]])
      M2 == SumSeq([i \in 1..Len(seq) |-> i * i * seq[i]])
      sorted_pixelvals == Sort(seq)
      cum(i) == SumSeq(SubSeq(sorted_pixelvals, 1, i))
      \* flux_fraction >= 0.8; a zero sum makes every fraction NaN
      sel == {i \in 1..Len(seq) :
                \/ M0 > 0 /\ 5 * cum(i) >= 4 * M0
                \/ M0 < 0 /\ 5 * cum(i) <= 4 * M0}
      threshold == sorted_pixelvals[MinOf(sel)]
      im20 == [x \in xs |-> IF im[x] >= threshold THEN im[x] ELSE 0]
      A0 == SumSeq(Select(im20, xs))
      A1 == SumSeq([i \in 1..Len(seq) |-> i * im20[i]])
      A2 == SumSeq([i \in 1..Len(seq) |-> i * i * im20[i]])
      \* second_moment_20 * M0^2 and second_moment * M0
      sm20 == M0 * M0 * A2 - 2 * M0 * M1 * A1 + M1 * M1 * A0
      sm == M0 * M2 - M1 * M1
  IN IF Cardinality(segmap) = 0 THEN [v |-> Sentinel, f |-> 0]
     ELSE IF sel = {} THEN [v |-> Sentinel, f |-> 1]
     ELSE IF sm = 0 THEN [v |-> Sentinel, f |-> 0]
     ELSE IF sm20 * sm * M0 > 0 THEN [v |-> Good, f |-> 0]
     ELSE [v |-> NaN, f |-> 0]

\* ------------------------------------------------ the segmap cross-check
\* segmap_overlap_ratio values tried: 0, 1/2 (the default) and 1.
Ratios == {<<0, 1>>, <<1, 2>>, <<1, 1>>}

\* The default of segmap_overlap_ratio (line 220).
DefaultRatio == <<1, 2>>

\* The cross-check without the area_max == 0 branch (lines 357-360).
CheckSegmapsNoEmptyTest(g, m, s, rt) ==
  LET area_max == Max(Cardinality(g), Max(Cardinality(m), Cardinality(s)))
      area_overlap == Cardinality(g \cap m \cap s)
  IN IF area_overlap * rt[2] < rt[1] * area_max THEN 1 ELSE 0

\* The cross-check with <= in place of line 363's <.
CheckSegmapsLeq(g, m, s, rt) ==
  LET area_max == Max(Cardinality(g), Max(Cardinality(m), Cardinality(s)))
      area_overlap == Cardinality(g \cap m \cap s)
  IN IF area_max = 0 THEN 1
     ELSE IF area_overlap * rt[2] <= rt[1] * area_max THEN 1 ELSE 0

\* _check_segmaps (lines 351-364): 1 when it sets self.flag, else 0.
\* area_overlap / float(area_max) < ratio is compared cross-multiplied.
CheckSegmaps(g, m, s, rt) ==
  LET area_max == Max(Cardinality(g), Max(Cardinality(m), Cardinality(s)))
      area_overlap == Cardinality(g \cap m \cap s)
  IN IF area_max = 0 THEN 1
     ELSE IF area_overlap * rt[2] < rt[1] * area_max THEN 1 ELSE 0

\* ------------------------------------------------------- the constructor
\* An external routine's outcome d that is degenerate counts as a fault.
Draw(d) ==
  /\ d => faults < MaxFaults
  /\ faults' = IF d THEN faults + 1 ELSE faults

\* One lazy property's body: its value v, the flag f it raises, and
\* whether the outcome it rests on is a degenerate one.
Body(p, v, f, d) ==
  /\ Enter(p)
  /\ SetFlag(f)
  /\ Store(p, v)
  /\ Draw(d)
  /\ UNCHANGED <<flag_sersic, img, ratio, lastRead, others>>

NoValue == <<>>

\* No call of the radius helper is being followed.
RadiusIdle ==
  /\ rpc = "idle"
  /\ total_sum = 1
  /\ curve = [lead |-> 0, dip |-> 1, chance |-> FALSE]
  /\ scan_i = 0
  /\ r_min = <<>>
  /\ r_max = <<>>
  /\ rflag = 0
  /\ ret = NoValue

\* No batch run is being followed.
BatchIdle ==
  /\ bpc = "idle"
  /\ label = 0
  /\ caller_image = <<>>
  /\ caller_variance = <<>>
  /\ variance_given = FALSE
  /\ caller_mask = {}
  /\ caller_segmap = <<>>
  /\ remove_outliers = FALSE
  /\ self_mask = {}
  /\ results = <<>>
  /\ caller_image0 = <<>>
  /\ caller_variance0 = <<>>
  /\ zeroed = {}

\* No curve of growth is being followed.
GrowthIdle ==
  /\ gpc = "idle"
  /\ growth = <<>>
  /\ cas = <<>>

\* No Petrosian solve is being followed.
PetroIdle ==
  /\ ppc = "idle"
  /\ solver = "circ"
  /\ profile = <<>>
  /\ r_step = 0
  /\ a_min = <<>>
  /\ a_max = <<>>
  /\ rpetro = NoValue
  /\ evals = 0

\* No skybox search is being followed.
SkyIdle ==
  /\ spc = "idle"
  /\ stamp = <<>>
  /\ border_size = 0
  /\ skybox_size = 0
  /\ skybox_size0 = 0
  /\ boxslice = NoValue
  /\ shape_sky = NoValue

\* No multimode search is being followed.
MidIdle ==
  /\ mpc = "idle"
  /\ cutout_mid = <<>>
  /\ mid_stepsize = <<1, 50>>
  /\ multimode_M = NoValue
  /\ q_final = NoValue

\* _segmap_mid is not followed on its own.
SegIdle ==
  /\ qpc = "idle"
  /\ cutout = <<>>
  /\ sorted_nonneg = <<>>
  /\ segment = {}
  /\ eta = <<1, 5>>
  /\ maxval_pos = <<>>
  /\ segmap_mid = NoValue
  /\ q_root = NoValue

\* rmax and half_light_radius are not followed on their own.
HalfIdle ==
  /\ hpc = "idle"
  /\ segmap_shape = {}
  /\ asym_center = <<0, 0>>
  /\ rmax4 = 0
  /\ half_light = NoValue

\* _slice_stamp is not followed on its own.
StampIdle ==
  /\ tpc = "idle"
  /\ props = <<>>
  /\ slice_stamp = NoValue

\* No minimization of the asymmetry is followed on its own.
AsymIdle ==
  /\ apc = "idle"
  /\ center_0 = <<0, 0>>
  /\ asym_image = {}
  /\ asym_mask = {}
  /\ asym_kind = "cas"
  /\ aperture = <<>>
  /\ sky_asym = NaN
  /\ best = NoValue
  /\ last = NoValue

LateIdle ==
  /\ SegIdle
  /\ HalfIdle
  /\ StampIdle
  /\ AsymIdle

\* None of the stages is followed on its own; variance is None.
StagesIdle ==
  /\ GrowthIdle
  /\ variance = <<>>
  /\ PetroIdle
  /\ SkyIdle
  /\ MidIdle
  /\ LateIdle

\* The object at lines 259-260: both flags 0, nothing evaluated yet.
Init ==
  /\ pc = "centroid"
  /\ k = 1
  /\ flag = 0
  /\ flag_sersic = 0
  /\ cached = {}
  /\ val = [p \in Lazies |-> NoValue]
  /\ ncomp = [p \in Lazies |-> 0]
  /\ img \in [Pixels -> PixVals]
  /\ ratio = DefaultRatio
  /\ faults = 0
  /\ lastRead = NoValue
  /\ RadiusIdle
  /\ BatchIdle
  /\ GrowthIdle
  /\ variance \in {<<>>, [x \in Pixels |-> 0]}
  /\ PetroIdle
  /\ SkyIdle
  /\ MidIdle
  /\ LateIdle

\* Lines 272-276: the flag is set when the centroid's pixel holds 0.
centroid_check ==
  /\ pc = "centroid"
  /\ pc' = "calc"
  /\ \E f \in {0, 1} : SetFlag(f)
  /\ UNCHANGED <<k, flag_sersic, cached, val, ncomp, img, ratio, faults,
                 lastRead, others>>

\* tmp = self[q] for a q that an earlier body has already evaluated.
calculate_morphology_hit ==
  /\ pc = "calc"
  /\ IsCached(quantities[k])
  /\ Advance(quantities[k])
  /\ UNCHANGED <<flag, flag_sersic, cached, val, ncomp, img, ratio, faults,
                 lastRead, others>>

\* Lines 845-889.  1: a box with pixels, 0: an empty box.  The search
\* raises the flag when it gives up (too small a stamp, corner box).
_slice_skybox ==
  /\ Enter("_slice_skybox")
  /\ \E o \in {"found", "zerobox", "corner", "cornerempty", "toosmall"} :
       Body("_slice_skybox",
            IF o \in {"found", "corner"} THEN 1 ELSE 0,
            IF o \in {"corner", "cornerempty", "toosmall"} THEN 1 ELSE 0,
            FALSE)

SkyEmpty == val["_slice_skybox"] = 0

\* Lines 541-596: the scan and _petrosian_function_circ may set the flag.
_rpetro_circ_centroid ==
  /\ Enter("_rpetro_circ_centroid")
  /\ \E f \in {0, 1} : Body("_rpetro_circ_centroid", Good, f, FALSE)

\* Lines 1035-1052: _asymmetry_function sets the flag for an out-of-bounds
\* or empty-aperture trial, line 1050 for a masked centre.
_asymmetry_center ==
  /\ Enter("_asymmetry_center")
  /\ \E f \in {0, 1} : Body("_asymmetry_center", Good, f, FALSE)

\* Lines 598-604.
rpetro_circ ==
  /\ Enter("rpetro_circ")
  /\ \E f \in {0, 1} : Body("rpetro_circ", Good, f, FALSE)

\* Lines 693-701.
rpetro_ellip ==
  /\ Enter("rpetro_ellip")
  /\ \E f \in {0, 1} : Body("rpetro_ellip", Good, f, FALSE)

\* Thresholds tried on the pixel values: each value, and one above all.
Thresholds == PixVals \cup {2}

\* maxval_xpos: the first pixel that holds the maximum.
Brightest ==
  CHOOSE x \in Pixels :
    \A y \in Pixels : img[x] >= img[y] /\ (img[y] = img[x] => x <= y)

\* Lines 708-752: above_threshold holds the pixels at or above the mean
\* flux of the Petrosian annulus (the smoothing kernel is taken narrow
\* enough to leave the row as it is).  No component: flag, empty segmap;
\* several: flag, the one that holds the maximum; one: above_threshold.
_segmap_gini ==
  /\ Enter("_segmap_gini")
  /\ \E t \in Thresholds :
       LET above_threshold == {x \in Pixels : img[x] >= t}
           num_features == Cardinality(Components(above_threshold))
       IN IF num_features = 0
          THEN Body("_segmap_gini", above_threshold, 1, FALSE)
          ELSE IF num_features > 1
          THEN Body("_segmap_gini", Component(above_threshold, Brightest),
                    1, FALSE)
          ELSE Body("_segmap_gini", above_threshold, 0, FALSE)

\* Lines 754-772.
gini ==
  /\ Enter("gini")
  /\ LET r == Gini(img, val["_segmap_gini"])
     IN Body("gini", r.v, r.f, FALSE)

\* Lines 774-815.
m20 ==
  /\ Enter("m20")
  /\ LET r == M20(img, val["_segmap_gini"])
     IN Body("m20", r.v, r.f, FALSE)

\* Lines 824-830: when variance is None, zeros in the shape of pixelvals
\* (one entry for each selected pixel, not one for each pixel of the
\* stamp); otherwise the stamp's variance, in absolute value when some
\* entry is negative.
VarianceUsed(var, locs) ==
  IF var = <<>>
  THEN [like |-> "pixelvals", a |-> [j \in 1..Cardinality(locs) |-> 0]]
  ELSE IF \E x \in DOMAIN var : var[x] < 0
  THEN [like |-> "stamp", a |-> [x \in DOMAIN var |-> Abs(var[x])]]
  ELSE [like |-> "stamp", a |-> var]

\* Lines 822-838 with a finite _sky_sigma whose square is sky2: the mean
\* of pixelvals / sqrt(variance[locs] + sky2) is finite when some pixel is
\* selected and every term has a positive number under the root;
\* otherwise the flag is set and the value is the sentinel.  variance[locs]
\* (line 833) takes a mask in the shape of the stamp: on an array in the
\* shape of pixelvals it raises IndexError (e).
SnPerPixel(image, segmap, var, sky2) ==
  LET locs == {x \in segmap : image[x] >= 0}
      used == VarianceUsed(var, locs)
  IN IF used.like # "stamp"
     THEN [v |-> NoValue, f |-> 0, e |-> TRUE]
     ELSE IF locs # {} /\ \A x \in locs : used.a[x] + sky2 > 0
     THEN [v |-> Good, f |-> 0, e |-> FALSE]
     ELSE [v |-> Sentinel, f |-> 1, e |-> FALSE]

\* Lines 817-838: _sky_sigma is NaN for an empty skybox, and it can be 0.
sn_per_pixel ==
  /\ Enter("sn_per_pixel")
  /\ LET locs == {x \in val["_segmap_gini"] : img[x] >= 0}
     IN IF SnPerPixel(img, val["_segmap_gini"], variance, 1).e
        THEN Raise /\ UNCHANGED <<img, ratio, lastRead, others>>
        ELSE IF locs = {} \/ SkyEmpty
        THEN Body("sn_per_pixel", Sentinel, 1, FALSE)
        ELSE \E zero_noise \in BOOLEAN :
               LET r == SnPerPixel(img, val["_segmap_gini"], variance,
                                   IF zero_noise THEN 0 ELSE 1)
               IN Body("sn_per_pixel", r.v, r.f, zero_noise)

\* What _radius_at_fraction_of_total (lines 71-119) can hand back: a root
\* with flag 0, a root after the "r_min is not defined yet" warning (flag
\* 1), (nan, 1) for a non-positive total, or the exception of line 99.
HelperOutcomes == {"root", "root_warned", "nan", "raise"}

HelperResult(o) ==
  CASE o = "root" -> [r |-> Good, f |-> 0]
    [] o = "root_warned" -> [r |-> Good, f |-> 1]
    [] o = "nan" -> [r |-> NaN, f |-> 1]

\* self.flag = flag, without the max.
MergeFlagAssign(old, new) == new

\* self.flag = max(self.flag, flag)  (lines 1154 and 1576)
MergeFlag(old, new) == Max(old, new)

\* Lines 1144-1160.
_radius_at_fraction_of_total_cas(p) ==
  \E o \in HelperOutcomes :
    IF o = "raise"
    THEN Enter(p) /\ Raise /\ UNCHANGED <<img, ratio, lastRead, others>>
    ELSE LET h == HelperResult(o)
             bad == ~IsFinite(h.r) \/ ~IsPositive(h.r)
         IN /\ Enter(p)
            /\ flag' = IF bad THEN 1 ELSE MergeFlag(flag, h.f)
            /\ Store(p, IF bad THEN Sentinel ELSE h.r)
            /\ Draw(o = "nan")
            /\ UNCHANGED <<flag_sersic, img, ratio, lastRead, others>>

\* Lines 1162-1167.
r_20 ==
  /\ Enter("r_20")
  /\ _radius_at_fraction_of_total_cas("r_20")

\* Lines 1169-1174.
r_80 ==
  /\ Enter("r_80")
  /\ _radius_at_fraction_of_total_cas("r_80")

\* Lines 1176-1186.
concentration ==
  /\ Enter("concentration")
  /\ Body("concentration",
          IF ShortCircuit \/ val["r_80"] = Sentinel
          THEN Sentinel ELSE Good,
          0, FALSE)

\* _asymmetry_function at an in-bounds centre (lines 996-1033): r_in and
\* r_out are the radii the kind's aperture needs, empty says that the
\* aperture's absolute flux sum is 0.
_asymmetry_function(kind, r_in, r_out, empty) ==
  IF kind = "outer" /\ (~IsFinite(r_in) \/ ~IsFinite(r_out)
                         \/ ~IsPositive(r_in) \/ ~IsPositive(r_out))
  THEN [v |-> Sentinel, f |-> 1]
  ELSE IF kind = "shape" /\ (~IsFinite(r_out) \/ ~IsPositive(r_out))
  THEN [v |-> Sentinel, f |-> 1]
  ELSE IF empty THEN [v |-> Sentinel, f |-> 1]
  ELSE [v |-> Good, f |-> 0]

\* Lines 1133-1142.
asymmetry ==
  /\ Enter("asymmetry")
  /\ \E empty \in BOOLEAN :
       LET a == _asymmetry_function("cas", Good, Good, empty)
       IN Body("asymmetry", a.v, a.f, empty)

\* Lines 1188-1214: S = -99.0 is finite, so the empty-skybox branch
\* returns the sentinel without touching the flag.
smoothness ==
  /\ Enter("smoothness")
  /\ IF SkyEmpty
     THEN Body("smoothness", Sentinel, 0, FALSE)
     ELSE \E nonfinite \in BOOLEAN :
            IF nonfinite
            THEN Body("smoothness", Sentinel, 1, TRUE)
            ELSE Body("smoothness", Good, 0, FALSE)

\* Lines 1221-1241: the pixels at or above the threshold that hang
\* together with the brightest pixel.
_segmap_mid_main_clump(t) ==
  Component({x \in Pixels : Max(img[x], 0) >= t}, Brightest)

\* Lines 1266-1318: the original segmap with the flag, or the main clump
\* of the quantile found, regularised; a regularisation that loses the
\* brightest pixel puts it back with the flag.
_segmap_mid ==
  /\ Enter("_segmap_mid")
  /\ \/ Body("_segmap_mid", Pixels, 1, FALSE)
     \/ \E t \in PixVals, f \in {0, 1} :
          /\ Max(img[Brightest], 0) >= t
          /\ Body("_segmap_mid", _segmap_mid_main_clump(t), f, FALSE)
     \/ Body("_segmap_mid", {Brightest}, 1, FALSE)

\* Lines 1375-1456: a single clump gives 0.0 with the flag.
multimode ==
  /\ Enter("multimode")
  /\ \E single \in BOOLEAN :
       IF single
       THEN Body("multimode", Zero, 1, TRUE)
       ELSE Body("multimode", Good, 0, FALSE)

\* Lines 1467-1511: the number of peaks found.
_intensity_sums ==
  /\ Enter("_intensity_sums")
  /\ \E npeaks \in 0..2 : Body("_intensity_sums", npeaks, 0, npeaks = 0)

\* Lines 1513-1525.
intensity ==
  /\ Enter("intensity")
  /\ Body("intensity",
          IF val["_intensity_sums"] <= 1 THEN Zero ELSE Good, 0, FALSE)

\* Lines 1527-1556.
deviation ==
  /\ Enter("deviation")
  /\ IF val["_intensity_sums"] = 0
     THEN Body("deviation", Sentinel, 1, FALSE)
     ELSE \E nonfinite \in BOOLEAN :
            IF nonfinite
            THEN Body("deviation", Sentinel, 1, TRUE)
            ELSE Body("deviation", Good, 0, FALSE)

\* Lines 1581-1655: the original segmap with the flag when neither the
\* annulus nor the skybox gives a background sample, else the component
\* of the pixels above the threshold around the maximum (flag when that
\* pixel had to be added).
_segmap_shape_asym ==
  /\ Enter("_segmap_shape_asym")
  /\ \/ /\ SkyEmpty
        /\ Body("_segmap_shape_asym", Pixels, 1, FALSE)
     \/ \E t \in Thresholds :
          LET above_threshold == {x \in Pixels : img[x] >= t}
          IN Body("_segmap_shape_asym",
                  Component(above_threshold \cup {Brightest}, Brightest),
                  IF Brightest \in above_threshold THEN 0 ELSE 1, FALSE)

\* Lines 1657-1682: rmax is 0 only when the segmap is the centre's pixel.
rmax ==
  /\ Enter("rmax")
  /\ \E zero \in BOOLEAN :
       /\ zero => Cardinality(val["_segmap_shape_asym"]) = 1
       /\ IF zero
          THEN Body("rmax", Zero, 1, FALSE)
          ELSE Body("rmax", Good, 0, FALSE)

\* Lines 1562-1579.
half_light_radius ==
  /\ Enter("half_light_radius")
  /\ IF val["rmax"] = Zero
     THEN Body("half_light_radius", Zero, 0, FALSE)
     ELSE \E o \in HelperOutcomes :
            IF o = "raise"
            THEN /\ Enter("half_light_radius")
                 /\ Raise
                 /\ UNCHANGED <<img, ratio, lastRead, others>>
            ELSE LET h == HelperResult(o)
                 IN /\ Enter("half_light_radius")
                    /\ flag' = MergeFlag(flag, h.f)
                    /\ Store("half_light_radius", h.r)
                    /\ Draw(o = "nan")
                    /\ UNCHANGED <<flag_sersic, img, ratio, lastRead, others>>

\* Lines 1684-1709.
outer_asymmetry ==
  /\ Enter("outer_asymmetry")
  /\ \E empty \in BOOLEAN :
       LET a == _asymmetry_function("outer", val["half_light_radius"],
                                    val["rmax"], empty)
       IN /\ empty => ~IsSentinel(_asymmetry_function(
                          "outer", val["half_light_radius"], val["rmax"],
                          FALSE).v)
          /\ Body("outer_asymmetry", a.v, a.f, empty)

\* Lines 1711-1737.
shape_asymmetry ==
  /\ Enter("shape_asymmetry")
  /\ \E empty \in BOOLEAN :
       LET a == _asymmetry_function("shape", Good, val["rmax"], empty)
       IN /\ empty => ~IsSentinel(_asymmetry_function(
                          "shape", Good, val["rmax"], FALSE).v)
          /\ Body("shape_asymmetry", a.v, a.f, empty)

\* Lines 462-498: a fit that warns sets flag_sersic.
sersic_index ==
  /\ Enter("sersic_index")
  /\ \E fs \in {0, 1} :
       /\ flag_sersic' = IF fs = 1 THEN 1 ELSE flag_sersic
       /\ Store("sersic_index", Good)
       /\ UNCHANGED <<flag, img, ratio, faults, lastRead, others>>

\* Lines 346-364, called at line 286.
_check_segmaps ==
  /\ pc = "check"
  /\ \A s \in Segmaps : IsCached(s)
  /\ flag' = IF CheckSegmaps(val["_segmap_gini"], val["_segmap_mid"],
                             val["_segmap_shape_asym"], ratio) = 1
             THEN 1 ELSE flag
  /\ pc' = "done"
  /\ UNCHANGED <<k, flag_sersic, cached, val, ncomp, img, ratio, faults,
                 lastRead, others>>

\* Lines 288-289 on the finished object: getattr(self, key) of a cached
\* property hands out the value held in the instance dictionary, whatever
\* the key q; the keys are taken together by the value they hold.
Readable == {val[q] : q \in {s \in Statistics : IsCached(s)}}

__getitem__ ==
  \E v \in Readable :
    /\ pc = "done"
    /\ lastRead' = v
    /\ UNCHANGED <<pc, k, flag, flag_sersic, cached, val, ncomp, img, ratio,
                   faults, others>>

\* --------------------------------------------- r_20, r_80, concentration
\* The curve of growth around the CAS centre: |flux| within r_grid[j] for
\* the first GrowthPts radii j = 0 .. GrowthPts - 1 is ap_sum[j + 1], from
\* there it grows linearly to |total| at r_grid[npoints - 1] = r_total, and
\* between two radii of the grid it is linear.  Flux is counted in twentieths
\* of the total; radii are counted in steps of r_grid from r_grid[0] > 0.
TotalFlux == 20

GrowthVals == {2, 4, 10, 16, 18, 19}

Growths ==
  [total : {0, TotalFlux}, ap_sum : [1..GrowthPts -> GrowthVals]]

\* npoints - GrowthPts times the flux within r_grid[j].
ApSum(g, j) ==
  LET n == Len(g.ap_sum)
  IN IF j < n
     THEN g.ap_sum[j + 1] * (npoints - n)
     ELSE g.ap_sum[n] * (npoints - n)
            + (Abs(g.total) - g.ap_sum[n]) * (j - n + 1)

Sign(x) == IF x > 0 THEN 1 ELSE IF x < 0 THEN -1 ELSE 0

\* Lines 61-69 at r_grid[j]: the sign of ap_sum / total_sum - fraction for
\* a positive total_sum and the fraction f[1]/f[2].
FractionOfTotalSign(g, f, j) ==
  Sign(f[2] * ApSum(g, j) - f[1] * g.total * (npoints - Len(g.ap_sum)))

\* Lines 1167 and 1174: the fraction r_20 and r_80 ask for.
Fraction == IF gpc = "r_80" THEN <<4, 5>> ELSE <<1, 5>>

\* ------------------------------------------ _radius_at_fraction_of_total
\* The sign of curval = ap_sum / total_sum - fraction at r_grid[j],
\* j = 0 .. npoints - 1.  For a call on its own: above the fraction on the
\* first curve.lead points, below it on the next curve.dip points, above it
\* from there on (exactly on it at the crossing when curve.chance); at
\* r_grid[npoints - 1] = r_total the value is 1 - fraction > 0.  For a call
\* made by r_20 or r_80: as the curve of growth has it.
_fraction_of_total_function(j) ==
  IF gpc # "idle" THEN FractionOfTotalSign(growth, Fraction, j)
  ELSE IF j < curve.lead THEN 1
  ELSE IF j < curve.lead + curve.dip THEN -1
  ELSE IF curve.chance /\ j = curve.lead + curve.dip /\ j < npoints - 1
  THEN 0
  ELSE 1

Curves ==
  [lead : 0..MaxLead, dip : 0..MaxDip, chance : BOOLEAN]

\* Lines 76-95: flag = 0; a total that is not positive returns (nan, 1).
_radius_total_sum ==
  /\ rpc = "start"
  /\ IF total_sum <= 0
     THEN /\ rflag' = 1
          /\ ret' = <<"nan", 0, 0>>
          /\ rpc' = "returned"
     ELSE /\ rpc' = "scan"
          /\ UNCHANGED <<rflag, ret>>
  /\ UNCHANGED <<total_sum, curve, scan_i, r_min, r_max>>
  /\ UNCHANGED <<pipelineVars, batchVars, stageVars>>

\* Lines 96-114: one turn of the while loop.
_radius_scan ==
  /\ rpc = "scan"
  /\ IF scan_i >= npoints
     THEN /\ rpc' = "raised"
          /\ UNCHANGED <<scan_i, r_min, r_max, rflag, ret>>
     ELSE LET curval == _fraction_of_total_function(scan_i)
          IN IF curval = 0
             THEN /\ ret' = <<"r_grid", scan_i, scan_i>>
                  /\ rpc' = "returned"
                  /\ UNCHANGED <<scan_i, r_min, r_max, rflag>>
             ELSE IF curval < 0
             THEN /\ r_min' = <<scan_i>>
                  /\ scan_i' = scan_i + 1
                  /\ UNCHANGED <<rpc, r_max, rflag, ret>>
             ELSE IF r_min = <<>>
             THEN /\ rflag' = 1
                  /\ scan_i' = scan_i + 1
                  /\ UNCHANGED <<rpc, r_min, r_max, ret>>
             ELSE /\ r_max' = <<scan_i>>
                  /\ rpc' = "brentq"
                  /\ UNCHANGED <<scan_i, r_min, rflag, ret>>
  /\ UNCHANGED <<total_sum, curve>>
  /\ UNCHANGED <<pipelineVars, batchVars, stageVars>>

\* Lines 116-119: the bracketed solve between r_min and r_max.
_radius_brentq ==
  /\ rpc = "brentq"
  /\ ret' = <<"root", r_min[1], r_max[1]>>
  /\ rpc' = "returned"
  /\ UNCHANGED <<total_sum, curve, scan_i, r_min, r_max, rflag>>
  /\ UNCHANGED <<pipelineVars, batchVars, stageVars>>

\* ------------------------------------------------------ source_morphology
\* The caller's image has NRows rows and NCols columns; the sources lie on
\* row 2, the other rows hold the background 0.
Positions == (1..NRows) \X (1..NCols)

Labels == 1..NLabels

OnSourceRow(p) == p[1] = 2

\* The pixel values tried on the source row: 0, 1, 30 and NaN.
BatchVals == {Zero, Good, <<30, 1>>, NaN}

\* np.isfinite over an array: the positions that are not finite.
NotFinite(a) == {p \in DOMAIN a : ~IsFinite(a[p])}

\* Lines 239-247: what the constructor makes of the two arrays, and the
\* positions it adds to its mask.
Sanitise(im, var, given) ==
  LET locs_invalid ==
        IF given THEN NotFinite(im) \cup NotFinite(var) ELSE NotFinite(im)
  IN [image |-> [p \in DOMAIN im |->
                   IF p \in locs_invalid THEN Zero ELSE im[p]],
      variance |-> IF given
                   THEN [p \in DOMAIN var |->
                           IF p \in locs_invalid THEN Zero ELSE var[p]]
                   ELSE var,
      locs_invalid |-> locs_invalid]

\* ndi.convolve's default boundary mode "reflect" with a 3x3 kernel: the
\* index one step outside the array is the edge index.
Clamp(x, hi) == Max(1, Min(x, hi))

Neighbours ==
  << <<-1, -1>>, <<-1, 0>>, <<-1, 1>>, <<0, -1>>,
     <<0, 1>>, <<1, -1>>, <<1, 0>>, <<1, 1>> >>

Neighbour(p, j) ==
  <<Clamp(p[1] + Neighbours[j][1], NRows),
    Clamp(p[2] + Neighbours[j][2], NCols)>>

\* A filter without line 313's np.abs: only the pixels above their
\* neighbours are found.
BadPixelsNoAbs(im) ==
  {p \in DOMAIN im :
     LET x == im[p][1]
         S == SumSeq([j \in 1..8 |-> im[Neighbour(p, j)][1]])
         Q == SumSeq([j \in 1..8 |->
                        im[Neighbour(p, j)][1] * im[Neighbour(p, j)][1]])
     IN /\ 8 * x - S > 0
        /\ (8 * x - S) * (8 * x - S)
             > n_sigma_outlier * n_sigma_outlier * (8 * Q - S * S)}

\* Lines 307-313 on a finite image, free of the divisions and the square
\* root: with S and Q the sums of the 8 neighbours and of their squares,
\* |x - S/8| > n * sqrt(Q/8 - (S/8)^2) is (8x - S)^2 > n^2 * (8Q - S^2).
BadPixels(im) ==
  {p \in DOMAIN im :
     LET x == im[p][1]
         S == SumSeq([j \in 1..8 |-> im[Neighbour(p, j)][1]])
         Q == SumSeq([j \in 1..8 |->
                        im[Neighbour(p, j)][1] * im[Neighbour(p, j)][1]])
     IN (8 * x - S) * (8 * x - S)
          > n_sigma_outlier * n_sigma_outlier * (8 * Q - S * S)}

\* A filter that zeroes every pixel, whatever bad_pixels holds.
RemoveBadpixelsAll(im) ==
  LET bad_pixels == BadPixels(im)
  IN [image |-> [p \in DOMAIN im |-> Zero],
      bad_pixels |-> bad_pixels,
      num_badpixels |-> Cardinality(bad_pixels)]

\* _remove_badpixels (lines 291-318).
RemoveBadpixels(im) ==
  LET bad_pixels == BadPixels(im)
  IN [image |-> [p \in DOMAIN im |->
                   IF p \in bad_pixels THEN Zero ELSE im[p]],
      bad_pixels |-> bad_pixels,
      num_badpixels |-> Cardinality(bad_pixels)]

\* What a SourceMorphology of label l is computed from: the count of bad
\* pixels, and the label's pixels and mask as the statistics see them.
Result(l, im, m, seg, num) ==
  [num_badpixels |-> num,
   cutout |-> [p \in {q \in DOMAIN seg : seg[q] = l} |->
                 IF p \in m THEN Zero ELSE im[p]],
   mask |-> {q \in m : seg[q] = l}]

\* Lines 239-253 as a whole, for one label on given arrays.
Construct(l, im, var, given, m, seg, outliers) ==
  LET s == Sanitise(im, var, given)
      b == RemoveBadpixels(s.image)
  IN IF outliers
     THEN Result(l, b.image, m \cup s.locs_invalid, seg, b.num_badpixels)
     ELSE Result(l, s.image, m \cup s.locs_invalid, seg, -1)

\* Lines 239-247 of the constructor called for the current label: the
\* caller's image and variance are written in place, the mask is not.
__init__sanitise ==
  /\ bpc = "sanitise"
  /\ label \in Labels
  /\ LET s == Sanitise(caller_image, caller_variance, variance_given)
     IN /\ caller_image' = s.image
        /\ caller_variance' = s.variance
        /\ self_mask' = caller_mask \cup s.locs_invalid
  /\ bpc' = "outliers"
  /\ UNCHANGED <<label, variance_given, caller_mask, caller_segmap,
                 remove_outliers, results, caller_image0, caller_variance0,
                 zeroed>>
  /\ UNCHANGED <<pipelineVars, radiusVars, stageVars>>

\* Lines 249-253, and the rest of the constructor, which reads the arrays
\* and writes none; line 1785 then goes on to the next label.
__init__outliers ==
  /\ bpc = "outliers"
  /\ IF remove_outliers
     THEN LET b == RemoveBadpixels(caller_image)
          IN /\ caller_image' = b.image
             /\ zeroed' = zeroed \cup b.bad_pixels
             /\ results' = [results EXCEPT ![label] =
                              Result(label, b.image, self_mask,
                                     caller_segmap, b.num_badpixels)]
     ELSE /\ results' = [results EXCEPT ![label] =
                           Result(label, caller_image, self_mask,
                                  caller_segmap, -1)]
          /\ UNCHANGED <<caller_image, zeroed>>
  /\ label' = label + 1
  /\ bpc' = IF label = NLabels THEN "returned" ELSE "sanitise"
  /\ UNCHANGED <<caller_variance, variance_given, caller_mask,
                 caller_segmap, remove_outliers, self_mask, caller_image0,
                 caller_variance0>>
  /\ UNCHANGED <<pipelineVars, radiusVars, stageVars>>

Next ==
  \/ centroid_check
  \/ calculate_morphology_hit
  \/ _slice_skybox
  \/ _rpetro_circ_centroid
  \/ _asymmetry_center
  \/ rpetro_circ
  \/ rpetro_ellip
  \/ _segmap_gini
  \/ gini
  \/ m20
  \/ sn_per_pixel
  \/ r_20
  \/ r_80
  \/ concentration
  \/ asymmetry
  \/ smoothness
  \/ _segmap_mid
  \/ multimode
  \/ _intensity_sums
  \/ intensity
  \/ deviation
  \/ _segmap_shape_asym
  \/ rmax
  \/ half_light_radius
  \/ outer_asymmetry
  \/ shape_asymmetry
  \/ sersic_index
  \/ _check_segmaps
  \/ __getitem__

Spec == Init /\ [][Next]_vars

\* ------------------------------------------- the cross-check on its own
\* The object as _check_segmaps finds it, over all triples of segmaps,
\* the ratios tried and both values of the flag; _check_segmaps reads
\* nothing else.
InitCheck ==
  /\ pc = "check"
  /\ k = Len(quantities)
  /\ flag \in {0, 1}
  /\ flag_sersic = 0
  /\ cached = Lazies
  /\ \E g \in SUBSET Pixels, m \in SUBSET Pixels, s \in SUBSET Pixels :
       val = [p \in Lazies |->
                CASE p = "_segmap_gini" -> g
                  [] p = "_segmap_mid" -> m
                  [] p = "_segmap_shape_asym" -> s
                  [] p \in {"_slice_skybox", "_intensity_sums"} -> 1
                  [] OTHER -> Good]
  /\ ncomp = [p \in Lazies |-> 1]
  /\ img = [x \in Pixels |-> 1]
  /\ ratio \in Ratios
  /\ faults = 0
  /\ lastRead = NoValue
  /\ RadiusIdle
  /\ BatchIdle
  /\ StagesIdle

NextCheck == _check_segmaps

SpecCheck == InitCheck /\ [][NextCheck]_vars

\* ------------------------------------------------------ gini on its own
GiniVals == {-1, 0, 1, 3}

\* The object as the loop of _calculate_morphology finds it when it asks
\* for gini: rpetro_circ and rpetro_ellip are held, and so is a Gini
\* segmap, any set of the GiniPix pixels of the row.
InitGini ==
  /\ pc = "calc"
  /\ k = CHOOSE j \in 1..Len(quantities) : quantities[j] = "gini"
  /\ flag = 0
  /\ flag_sersic = 0
  /\ cached = ClosureOf["rpetro_circ"] \cup ClosureOf["_segmap_gini"]
  /\ \E g \in SUBSET (1..GiniPix) :
       val = [p \in Lazies |->
                IF p = "_segmap_gini" THEN g
                ELSE IF p = "_slice_skybox" THEN 1
                ELSE IF p \in ClosureOf["rpetro_circ"]
                             \cup ClosureOf["_segmap_gini"]
                THEN Good ELSE NoValue]
  /\ ncomp = [p \in Lazies |->
                IF p \in ClosureOf["rpetro_circ"]
                         \cup ClosureOf["_segmap_gini"]
                THEN 1 ELSE 0]
  /\ img \in [1..GiniPix -> GiniVals]
  /\ ratio = DefaultRatio
  /\ faults = 0
  /\ lastRead = NoValue
  /\ RadiusIdle
  /\ BatchIdle
  /\ StagesIdle

NextGini == gini

SpecGini == InitGini /\ [][NextGini]_vars

\* ------------------------------------------- the radius helper on its own
PipelineIdle ==
  /\ pc = "idle"
  /\ k = 1
  /\ flag = 0
  /\ flag_sersic = 0
  /\ cached = {}
  /\ val = [p \in Lazies |-> NoValue]
  /\ ncomp = [p \in Lazies |-> 0]
  /\ img = [x \in Pixels |-> 1]
  /\ ratio = DefaultRatio
  /\ faults = 0
  /\ lastRead = NoValue

InitRadius ==
  /\ rpc = "start"
  /\ total_sum \in {0, 1}
  /\ curve \in Curves
  /\ scan_i = 0
  /\ r_min = <<>>
  /\ r_max = <<>>
  /\ rflag = 0
  /\ ret = NoValue
  /\ PipelineIdle
  /\ BatchIdle
  /\ StagesIdle

NextRadius ==
  \/ _radius_total_sum
  \/ _radius_scan
  \/ _radius_brentq

SpecRadius == InitRadius /\ [][NextRadius]_vars

\* ------------------------------------------------- the batch run on its own
\* The caller's arrays: any source row over BatchVals, a variance that is
\* absent, finite, or non-finite at the first pixel of the source row, a
\* mask that holds the last pixel of the source row, and a segmentation
\* map that cuts the source row into NLabels segments.
InitBatch ==
  /\ bpc = "sanitise"
  /\ label = 1
  /\ \E row \in [1..NCols -> BatchVals] :
       caller_image = [p \in Positions |->
                         IF OnSourceRow(p) THEN row[p[2]] ELSE Zero]
  /\ \E v \in {"None", "finite", "nan"} :
       /\ variance_given = (v # "None")
       /\ caller_variance = [p \in Positions |->
                               IF v = "nan" /\ p = <<2, 1>>
                               THEN NaN ELSE Good]
  /\ caller_mask = {<<2, NCols>>}
  /\ caller_segmap = [p \in Positions |->
                        IF OnSourceRow(p)
                        THEN ((p[2] - 1) * NLabels) \div NCols + 1
                        ELSE 0]
  /\ remove_outliers \in BOOLEAN
  /\ self_mask = {}
  /\ results = [l \in Labels |-> NoValue]
  /\ caller_image0 = caller_image
  /\ caller_variance0 = caller_variance
  /\ zeroed = {}
  /\ PipelineIdle
  /\ RadiusIdle
  /\ StagesIdle

NextBatch ==
  \/ __init__sanitise
  \/ __init__outliers

SpecBatch == InitBatch /\ [][NextBatch]_vars


\* ------------------------------------- r_20, r_80, concentration: steps
\* A root finder that hands back the lower end of the bracket.
BrentqLowerEnd(g, f, lo, hi) == <<lo, 1>>

\* Lines 116-117: the root of curval between r_grid[lo] and r_grid[hi],
\* in steps of r_grid.
Brentq(g, f, lo, hi) ==
  LET A == f[2] * ApSum(g, lo)
      B == f[2] * ApSum(g, hi)
      target == f[1] * g.total * (npoints - Len(g.ap_sum))
  IN <<lo * (B - A) + (hi - lo) * (target - A), B - A>>

\* a < b for two rationals with positive denominators.
Less(a, b) == a[1] * b[2] < b[1] * a[2]

\* Line 1153, the call: _radius_at_fraction_of_total starts on the curve
\* of growth with the fraction of the radius that is being evaluated.
cas_radius_call ==
  /\ gpc \in {"r_20", "r_80"}
  /\ rpc = "idle"
  /\ rpc' = "start"
  /\ total_sum' = growth.total
  /\ scan_i' = 0
  /\ r_min' = <<>>
  /\ r_max' = <<>>
  /\ rflag' = 0
  /\ ret' = NoValue
  /\ UNCHANGED <<curve, pipelineVars, batchVars, stageVars>>

\* What the helper handed back, as a radius in steps of r_grid.
Returned ==
  CASE ret[1] = "root" -> Brentq(growth, Fraction, ret[2], ret[3])
    [] ret[1] = "r_grid" -> <<ret[2], 1>>
    [] OTHER -> NaN

\* Lines 1153-1160 once the helper is back: its flag is merged, NaN becomes
\* the sentinel with the flag (r_grid[0] = min(0.5, 0.2 * r_total) > 0, so
\* no radius of the grid is <= 0); the exception of line 99 ends the
\* construction.  Line 1181 asks for r_80 unless r_20 is the sentinel.
cas_radius_return ==
  /\ gpc \in {"r_20", "r_80"}
  /\ rpc \in {"returned", "raised"}
  /\ rpc' = "idle"
  /\ IF rpc = "raised"
     THEN /\ gpc' = "raised"
          /\ UNCHANGED <<flag, cas>>
     ELSE LET r == IF IsFinite(Returned) THEN Returned ELSE Sentinel
          IN /\ flag' = IF IsFinite(Returned)
                        THEN MergeFlag(flag, rflag) ELSE 1
             /\ cas' = IF gpc = "r_20" THEN [cas EXCEPT !.r_20 = r]
                       ELSE [cas EXCEPT !.r_80 = r]
             /\ gpc' = IF gpc = "r_20" /\ r # Sentinel THEN "r_80"
                       ELSE "concentration"
  /\ UNCHANGED <<total_sum, curve, scan_i, r_min, r_max, rflag, ret>>
  /\ UNCHANGED <<growth, pipelineRest, batchVars, variance, petroVars,
                 skyVars, midVars,
                 lateVars>>

\* Lines 1176-1186: the sign of 5 * log10(r_80 / r_20), or the sentinel.
cas_concentration ==
  /\ gpc = "concentration"
  /\ cas' = [cas EXCEPT !.C =
               IF cas.r_20 = Sentinel \/ cas.r_80 = Sentinel THEN Sentinel
               ELSE IF Less(cas.r_20, cas.r_80) THEN <<1, 1>>
               ELSE IF Less(cas.r_80, cas.r_20) THEN <<-1, 1>>
               ELSE <<0, 1>>]
  /\ gpc' = "done"
  /\ UNCHANGED <<flag, growth, pipelineRest, radiusVars, batchVars, variance,
                 petroVars, skyVars, midVars,
                 lateVars>>

InitGrowth ==
  /\ gpc = "r_20"
  /\ growth \in Growths
  /\ cas = [r_20 |-> NoValue, r_80 |-> NoValue, C |-> NoValue]
  /\ PipelineIdle
  /\ RadiusIdle
  /\ BatchIdle
  /\ variance = <<>>
  /\ PetroIdle
  /\ SkyIdle
  /\ MidIdle
  /\ LateIdle

NextGrowth ==
  \/ cas_radius_call
  \/ _radius_total_sum
  \/ _radius_scan
  \/ _radius_brentq
  \/ cas_radius_return
  \/ cas_concentration

SpecGrowth == InitGrowth /\ [][NextGrowth]_vars

\* The flux within r grows strictly with r, from 0 at r = 0.
StrictlyIncreasing(g) ==
  /\ g.total > 0
  /\ \A i \in 1..(Len(g.ap_sum) - 1) : g.ap_sum[i] < g.ap_sum[i + 1]
  /\ g.ap_sum[Len(g.ap_sum)] < g.total

\* ------------------------------------------- the bad-pixel filter on its own
\* The deviations tried for the pixel that stands out: none, just above
\* and far above ten standard deviations of a sloping background, and far
\* below.
Deviations == {0, 9, 30, -30}

\* A background that slopes by a per row and b per column from c, one
\* pixel q of the source row that is 1 above it (none when q is no
\* position), and the pixel s, anywhere, that deviates by d.
OutlierImage(a, b, c, q, s, d) ==
  [p \in Positions |->
     << a * p[1] + b * p[2] + c
          + (IF p = q THEN 1 ELSE 0) + (IF p = s THEN d ELSE 0), 1 >>]

\* The constructor called once, with remove_outliers on, on a finite image,
\* for the segmap's last label.
InitOutlier ==
  /\ bpc = "sanitise"
  /\ label = NLabels
  /\ \E a \in {0, 1}, b \in {0, 1}, c \in {0, 1},
        q \in {p \in Positions : OnSourceRow(p)} \cup {<<0, 0>>},
        s \in Positions, d \in Deviations :
       caller_image = OutlierImage(a, b, c, q, s, d)
  /\ variance_given = FALSE
  /\ caller_variance = [p \in Positions |-> Good]
  /\ caller_mask = {}
  /\ caller_segmap = [p \in Positions |->
                        IF OnSourceRow(p)
                        THEN ((p[2] - 1) * NLabels) \div NCols + 1
                        ELSE 0]
  /\ remove_outliers = TRUE
  /\ self_mask = {}
  /\ results = [l \in Labels |-> NoValue]
  /\ caller_image0 = caller_image
  /\ caller_variance0 = caller_variance
  /\ zeroed = {}
  /\ PipelineIdle
  /\ RadiusIdle
  /\ StagesIdle

SpecOutlier == InitOutlier /\ [][NextBatch]_vars

\* ---------------------------------------------- sn_per_pixel on its own
VarianceVals == {-1, 0, 1}

SnpVals == {-1, 0, 1}

\* The statistics the loop of _calculate_morphology has been through when
\* it asks for sn_per_pixel, and what they rest on.
BeforeSnp ==
  ClosureOf["rpetro_circ"] \cup ClosureOf["rpetro_ellip"]
    \cup ClosureOf["gini"] \cup ClosureOf["m20"]

\* The object as the loop finds it then: any Gini segmap, any image over
\* SnpVals, a skybox that is empty or not, and a variance that is None or
\* any array over VarianceVals.
InitSnp ==
  /\ pc = "calc"
  /\ k = CHOOSE j \in 1..Len(quantities) : quantities[j] = "sn_per_pixel"
  /\ flag \in {0, 1}
  /\ flag_sersic = 0
  /\ cached = BeforeSnp
  /\ \E g \in SUBSET Pixels, box \in {0, 1} :
       val = [p \in Lazies |->
                IF p = "_segmap_gini" THEN g
                ELSE IF p = "_slice_skybox" THEN box
                ELSE IF p \in BeforeSnp THEN Good ELSE NoValue]
  /\ ncomp = [p \in Lazies |-> IF p \in BeforeSnp THEN 1 ELSE 0]
  /\ img \in [Pixels -> SnpVals]
  /\ ratio = DefaultRatio
  /\ faults = 0
  /\ lastRead = NoValue
  /\ RadiusIdle
  /\ BatchIdle
  /\ GrowthIdle
  /\ variance \in {<<>>} \cup [Pixels -> VarianceVals]
  /\ PetroIdle
  /\ SkyIdle
  /\ MidIdle
  /\ LateIdle

NextSnp == sn_per_pixel

SpecSnp == InitSnp /\ [][NextSnp]_vars

\* ------------------------ _rpetro_circ_generic and _rpetro_ellip_generic
\* The scan visits r = r_inner + j * dr, j = 0, 1, ...; dr is such that
\* j = npoints - 1 is r_outer.  Along it the Petrosian function is below 0
\* on the first profile.neg radii, above 0 on the next profile.pos, and
\* from there on 0 (profile.chance) or below 0.  profile.dark: where it is
\* above 0 that is because the mean flux within the aperture is 0.
Profiles ==
  [neg : 0..MaxLead,
   pos : (0..MaxDip) \cup {npoints - 2 + d : d \in 0..(MaxBeyond + 2)},
   chance : BOOLEAN,
   dark : BOOLEAN]

\* The sign of _petrosian_function_circ / _ellip (lines 509-539, 606-643)
\* at the scan's radius j.
_petrosian_function(j) ==
  IF j < profile.neg THEN -1
  ELSE IF j < profile.neg + profile.pos THEN 1
  ELSE IF profile.chance THEN 0
  ELSE -1

\* Lines 533-535 and 637-639: the flag is set where the aperture is dark.
Dark(j) ==
  profile.dark /\ profile.neg <= j /\ j < profile.neg + profile.pos

\* A scan that takes the first radius below 0 as r_max, r_min or no r_min.
ScanBranchNoNoneTest(curval, amin) ==
  IF curval = 0 THEN "chance"
  ELSE IF curval > 0 THEN "min"
  ELSE "break"

\* Lines 569-580 and 674-685: what the scan does with curval.
ScanBranch(curval, amin) ==
  IF curval = 0 THEN "chance"
  ELSE IF curval > 0 THEN "min"
  ELSE IF amin = <<>> THEN "warn"
  ELSE "break"

\* Lines 564-581 and 669-686: one turn of the while loop.  The loop has no
\* bound of its own; the model follows it for MaxBeyond radii past r_outer.
_rpetro_scan ==
  /\ ppc = "scan"
  /\ r_step < npoints + MaxBeyond
  /\ LET curval == _petrosian_function(r_step)
         branch == ScanBranch(curval, a_min)
     IN /\ flag' = IF \/ r_step >= npoints - 1
                      \/ Dark(r_step)
                      \/ branch = "warn"
                   THEN 1 ELSE flag
        /\ evals' = evals + 1
        /\ CASE branch = "chance" ->
                  /\ rpetro' = <<"r", r_step, r_step>>
                  /\ ppc' = "returned"
                  /\ UNCHANGED <<r_step, a_min, a_max>>
             [] branch = "min" ->
                  /\ a_min' = <<r_step>>
                  /\ r_step' = r_step + 1
                  /\ UNCHANGED <<ppc, a_max, rpetro>>
             [] branch = "warn" ->
                  /\ r_step' = r_step + 1
                  /\ UNCHANGED <<ppc, a_min, a_max, rpetro>>
             [] branch = "break" ->
                  /\ a_max' = <<r_step>>
                  /\ ppc' = "brentq"
                  /\ UNCHANGED <<r_step, a_min, rpetro>>
  /\ UNCHANGED <<solver, profile>>
  /\ UNCHANGED <<pipelineRest, radiusVars, batchVars, growthVars, variance,
                 skyVars, midVars,
                 lateVars>>

\* Lines 583-586 and 688-691: the root between r_min and r_max; brentq
\* evaluates the Petrosian function at both ends first.
_rpetro_brentq ==
  /\ ppc = "brentq"
  /\ rpetro' = <<"root", a_min[1], a_max[1]>>
  /\ flag' = IF Dark(a_min[1]) THEN 1 ELSE flag
  /\ ppc' = "returned"
  /\ UNCHANGED <<solver, profile, r_step, a_min, a_max, evals>>
  /\ UNCHANGED <<pipelineRest, radiusVars, batchVars, growthVars, variance,
                 skyVars, midVars,
                 lateVars>>

\* Lines 556-563 and 661-668: r_min, r_max = None, None; r = r_inner.
InitPetro ==
  /\ ppc = "scan"
  /\ solver \in {"circ", "ellip"}
  /\ profile \in Profiles
  /\ r_step = 0
  /\ a_min = <<>>
  /\ a_max = <<>>
  /\ rpetro = NoValue
  /\ evals = 0
  /\ pc = "idle"
  /\ k = 1
  /\ flag \in {0, 1}
  /\ flag_sersic = 0
  /\ cached = {}
  /\ val = [p \in Lazies |-> NoValue]
  /\ ncomp = [p \in Lazies |-> 0]
  /\ img = [x \in Pixels |-> 1]
  /\ ratio = DefaultRatio
  /\ faults = 0
  /\ lastRead = NoValue
  /\ RadiusIdle
  /\ BatchIdle
  /\ GrowthIdle
  /\ variance = <<>>
  /\ SkyIdle
  /\ MidIdle
  /\ LateIdle

NextPetro ==
  \/ _rpetro_scan
  \/ _rpetro_brentq

SpecPetro == InitPetro /\ [][NextPetro]_vars

\* --------------------------------------------------------- _slice_skybox
\* The stamp is StampSize x StampSize, its pixels <<i, j>> numbered from 0
\* as in the code; stamp.segmap holds the pixels with segmap # 0 (a
\* rectangle), stamp.mask the masked ones.
BorderSizes == 0..3

SkyboxSizes == {1, 2, 4}

Stamps ==
  [ny : {StampSize}, nx : {StampSize},
   segmap : {(i0..i1) \X (j0..j1) :
               i0 \in 0..(StampSize - 1), i1 \in 0..(StampSize - 1),
               j0 \in 0..(StampSize - 1), j1 \in 0..(StampSize - 1)} \ {{}},
   mask : {{}, {<<1, 1>>}}]

\* range(lo, hi)
Range(lo, hi) == lo..(hi - 1)

\* segmap[boxslice] == 0 everywhere and mask[boxslice] nowhere (line 872),
\* for boxslice = (slice(i, i + size), slice(j, j + size)).
BoxFree(st, i, j, size) ==
  \A c \in (i..(i + size - 1)) \X (j..(j + size - 1)) :
    c \notin st.segmap /\ c \notin st.mask

\* The positions the two for loops of lines 866-869 go through that pass
\* the test of line 872.
FreeBoxes(st, b, size) ==
  {c \in Range(b, st.ny - b - size) \X Range(b, st.nx - b - size) :
     BoxFree(st, c[1], c[2], size)}

\* The first of a set of positions in the loops' (row-major) order.
FirstRowMajor(S) ==
  CHOOSE c \in S :
    \A d \in S : c[1] < d[1] \/ (c[1] = d[1] /\ c[2] <= d[2])

\* Lines 858-863: a stamp smaller than the borders has no skybox.
_slice_skybox_start ==
  /\ spc = "start"
  /\ IF stamp.nx < 2 * border_size \/ stamp.ny < 2 * border_size
     THEN /\ flag' = 1
          /\ boxslice' = <<0, 0, 0>>
          /\ spc' = "returned"
     ELSE /\ spc' = "search"
          /\ UNCHANGED <<flag, boxslice>>
  /\ UNCHANGED <<stamp, border_size, skybox_size, skybox_size0, shape_sky>>
  /\ UNCHANGED <<pipelineRest, radiusVars, batchVars, growthVars, variance,
                 petroVars, midVars,
                 lateVars>>

\* Line 884 with a size that stays at 1.
HalveAtLeastOne(size) == Max(1, size \div 2)

\* Line 884: self._skybox_size //= 2
Halve(size) == size \div 2

\* Lines 865-886: one turn of the while loop.
_slice_skybox_search ==
  /\ spc = "search"
  /\ LET found == FreeBoxes(stamp, border_size, skybox_size)
     IN IF found # {}
        THEN /\ boxslice' = <<FirstRowMajor(found)[1],
                              FirstRowMajor(found)[2], skybox_size>>
             /\ spc' = "returned"
             /\ UNCHANGED <<flag, skybox_size>>
        ELSE IF skybox_size < border_size
        THEN /\ flag' = 1
             /\ boxslice' = <<border_size, border_size, skybox_size>>
             /\ spc' = "returned"
             /\ UNCHANGED skybox_size
        ELSE /\ skybox_size' = Halve(skybox_size)
             /\ UNCHANGED <<flag, boxslice, spc>>
  /\ UNCHANGED <<stamp, border_size, skybox_size0, shape_sky>>
  /\ UNCHANGED <<pipelineRest, radiusVars, batchVars, growthVars, variance,
                 petroVars, midVars,
                 lateVars>>

\* The numbers of unmasked pixels tried for the background annulus.
SkyAreas == {sz * sz - e : sz \in SkyboxSizes, e \in {0, 1}}

\* Lines 1616-1628 of _segmap_shape_asym, evaluated after the skybox
\* search: with sky_area pixels in the annulus the skybox is used instead
\* when sky_area < self._skybox_size ** 2, and an empty skybox sets the flag.
_segmap_shape_asym_sky ==
  /\ spc = "returned"
  /\ \E sky_area \in SkyAreas :
       LET fallback == sky_area < skybox_size * skybox_size
       IN /\ shape_sky' = [area |-> sky_area, fallback |-> fallback]
          /\ flag' = IF fallback /\ boxslice[3] = 0 THEN 1 ELSE flag
  /\ spc' = "shape"
  /\ UNCHANGED <<stamp, border_size, skybox_size, skybox_size0, boxslice>>
  /\ UNCHANGED <<pipelineRest, radiusVars, batchVars, growthVars, variance,
                 petroVars, midVars,
                 lateVars>>

InitSky ==
  /\ spc = "start"
  /\ stamp \in Stamps
  /\ border_size \in BorderSizes
  /\ skybox_size \in SkyboxSizes
  /\ skybox_size0 = skybox_size
  /\ boxslice = NoValue
  /\ shape_sky = NoValue
  /\ PipelineIdle
  /\ RadiusIdle
  /\ BatchIdle
  /\ GrowthIdle
  /\ variance = <<>>
  /\ PetroIdle
  /\ MidIdle
  /\ LateIdle

NextSky ==
  \/ _slice_skybox_start
  \/ _slice_skybox_search
  \/ _segmap_shape_asym_sky

SpecSky == InitSky /\ [][NextSky]_vars

\* ------------------------------------------------- multimode: stage 1
\* The MID cutout is a row of MidPix non-negative pixels, none masked;
\* quantiles and the step are exact fractions <<num, den>>.
MidVals == 0..2

\* The step below which stage 1 gives up (line 1427).
MidStepMin == <<1, 1000>>

\* Lines 24-33.
_quantile(sorted_values, q) ==
  IF q[1] = q[2]
  THEN sorted_values[Len(sorted_values)]
  ELSE sorted_values[(q[1] * Len(sorted_values)) \div q[2] + 1]

\* Lines 1328-1336.
_sorted_pixelvals_mid == Sort(cutout_mid)

\* np.arange(q_min, q_max, mid_stepsize) for q_min = 0, q_max = 1 and a
\* step 1 / den.
QuantileArray(step) == {<<j, step[2]>> : j \in 0..(step[2] - 1)}

\* The thresholds (line 1343) of the quantiles of a scan; a quantile acts
\* on the ratio through its threshold only.
ScanThresholds(step) ==
  LET sorted_values == _sorted_pixelvals_mid
  IN {_quantile(sorted_values, q) : q \in QuantileArray(step)}

\* Line 1344: the pixels at or above the threshold.
AboveThreshold(threshold) ==
  {x \in DOMAIN cutout_mid : cutout_mid[x] >= threshold}

\* Lines 1338-1356: the sizes of the clumps, largest first.
_multimode_function(threshold) ==
  LET above == AboveThreshold(threshold)
      counts == [x \in DOMAIN cutout_mid |->
                   Cardinality(Component(above, x))]
      firsts == {MinOf(c) : c \in Components(above)}
      up == Sort(Select(counts, firsts))
  IN [i \in 1..Len(up) |-> up[Len(up) + 1 - i]]

\* _multimode_ratio with the value for a single clump negated.
MultimodeRatioInvalidNegated(threshold) ==
  LET invalid == SumSeq(cutout_mid)
      sorted_counts == _multimode_function(threshold)
  IN IF Len(sorted_counts) = 1
     THEN <<-1 - invalid, 1>>
     ELSE <<-(sorted_counts[2] * sorted_counts[2]), sorted_counts[1]>>

\* Lines 1358-1373, for a quantile 0 <= q <= 1 with this threshold.
_multimode_ratio(threshold) ==
  LET invalid == SumSeq(cutout_mid)
      sorted_counts == _multimode_function(threshold)
  IN IF Len(sorted_counts) = 1
     THEN <<invalid, 1>>
     ELSE <<-(sorted_counts[2] * sorted_counts[2]), sorted_counts[1]>>

\* Lines 1414-1431: one turn of the while loop of stage 1.
multimode_scan ==
  /\ mpc = "scan"
  /\ \E ratio_array \in
          {{_multimode_ratio(t) : t \in ScanThresholds(mid_stepsize)}} :
     LET ratio_min == CHOOSE a \in ratio_array :
                        \A b \in ratio_array : ~Less(b, a)
     IN IF Less(ratio_min, <<0, 1>>)
        THEN /\ mpc' = "stage2"
             /\ UNCHANGED <<flag, mid_stepsize, multimode_M>>
        ELSE IF Less(mid_stepsize, MidStepMin)
        THEN /\ flag' = 1
             /\ multimode_M' = <<0, 1>>
             /\ mpc' = "returned"
             /\ UNCHANGED mid_stepsize
        ELSE /\ mid_stepsize' = <<mid_stepsize[1], 2 * mid_stepsize[2]>>
             /\ UNCHANGED <<flag, mpc, multimode_M>>
  /\ UNCHANGED <<cutout_mid, q_final>>
  /\ UNCHANGED <<pipelineRest, radiusVars, batchVars, growthVars, variance,
                 petroVars, skyVars,
                 lateVars>>

InitMid ==
  /\ mpc = "scan"
  /\ cutout_mid \in [1..MidPix -> MidVals]
  /\ mid_stepsize = <<1, 50>>
  /\ multimode_M = NoValue
  /\ q_final = NoValue
  /\ pc = "idle"
  /\ k = 1
  /\ flag \in {0, 1}
  /\ flag_sersic = 0
  /\ cached = {}
  /\ val = [p \in Lazies |-> NoValue]
  /\ ncomp = [p \in Lazies |-> 0]
  /\ img = [x \in Pixels |-> 1]
  /\ ratio = DefaultRatio
  /\ faults = 0
  /\ lastRead = NoValue
  /\ RadiusIdle
  /\ BatchIdle
  /\ GrowthIdle
  /\ variance = <<>>
  /\ PetroIdle
  /\ SkyIdle
  /\ LateIdle

NextMid == multimode_scan

SpecMid == InitMid /\ [][NextMid]_vars

\* ------------------------------------------------- multimode: stage 2
\* The points that opt.basinhopping can end at: the quantiles that tell
\* the thresholds of the cutout apart, and one point on each side of
\* [0, 1].
FinalQuantiles ==
  {<<j, MidPix>> : j \in 0..MidPix} \cup {<<-1, 10>>, <<11, 10>>}

\* Line 1364: (q < 0) or (q > 1).
OutOfRange(q) == q[1] < 0 \/ q[1] > q[2]

\* Lines 1358-1373 as a function of the quantile.
MultimodeObjective(q) ==
  IF OutOfRange(q)
  THEN <<SumSeq(cutout_mid), 1>>
  ELSE _multimode_ratio(_quantile(_sorted_pixelvals_mid, q))

\* Lines 1418-1423: the lowest ratio of the scan that ended stage 1.
RatioMin ==
  LET ratio_array ==
        {_multimode_ratio(t) : t \in ScanThresholds(mid_stepsize)}
  IN CHOOSE a \in ratio_array : \A b \in ratio_array : ~Less(b, a)

\* Line 1456 with the two areas exchanged.
MultimodeInverse(sorted_counts) == <<sorted_counts[1], sorted_counts[2]>>

\* Line 1456: A2 / A1.
MultimodeValue(sorted_counts) == <<sorted_counts[2], sorted_counts[1]>>

\* Lines 1433-1456: stage 2 ends at some point; _multimode_function is
\* evaluated there (the assertion of _quantile, line 29, and the index 1
\* of line 1456 can raise).
multimode_basinhopping ==
  /\ mpc = "stage2"
  /\ \E q \in FinalQuantiles :
       /\ q_final' = q
       /\ IF OutOfRange(q)
          THEN /\ mpc' = "raised"
               /\ UNCHANGED multimode_M
          ELSE LET sorted_counts ==
                     _multimode_function(_quantile(_sorted_pixelvals_mid, q))
               IN IF Len(sorted_counts) < 2
                  THEN /\ mpc' = "raised"
                       /\ UNCHANGED multimode_M
                  ELSE /\ mpc' = "returned"
                       /\ multimode_M' = MultimodeValue(sorted_counts)
  /\ UNCHANGED <<flag, cutout_mid, mid_stepsize>>
  /\ UNCHANGED <<pipelineRest, radiusVars, batchVars, growthVars, variance,
                 petroVars, skyVars, lateVars>>

NextMultimode ==
  \/ multimode_scan
  \/ multimode_basinhopping

SpecMultimode == InitMid /\ [][NextMultimode]_vars

\* ------------------------------------------------------------ _segmap_mid
\* The stamp has 2 rows and 3 columns, its pixels <<i, j>> numbered
\* from 0.  cutout holds _cutout_stamp_maskzeroed_no_bg_nonnegative: 0
\* outside the segment and where the image is not positive.
MidShape == <<2, 3>>

MidGrid == (0..(MidShape[1] - 1)) \X (0..(MidShape[2] - 1))

CutoutVals == 0..MidLevels

\* The labelled segment fills the stamp, or leaves its last column to the
\* background.
Segments == {MidGrid, {p \in MidGrid : p[2] < MidShape[2] - 1}}

Etas == {<<1, 5>>, <<4, 5>>}

boxcar_size_mid == 3

\* generate_binary_structure(2, 2): the 8-connected footprint.
Adjacent8(p, u) == Abs(p[1] - u[1]) <= 1 /\ Abs(p[2] - u[2]) <= 1

RECURSIVE Grow(_, _)
Grow(S, C) ==
  LET N == C \cup {p \in S : \E c \in C : Adjacent8(p, c)}
  IN IF N = C THEN C ELSE Grow(S, N)

\* labeled_array == labeled_array[ic, jc] for labeled_array = ndi.label(S):
\* the region of S that holds p, or every unlabelled pixel when p has
\* label 0.
LabelOf(S, p) == IF p \in S THEN Grow(S, {p}) ELSE MidGrid \ S

\* Lines 468-475: np.sort(image[~self._mask_stamp_no_bg]).
RECURSIVE SortedVals(_, _)
SortedVals(image, S) ==
  IF S = {} THEN <<>>
  ELSE LET p == CHOOSE u \in S : TRUE
       IN Insert(image[p], SortedVals(image, S \ {p}))

\* Line 1227 with > in place of >=.
AboveMainStrict(q) ==
  LET threshold == _quantile(sorted_nonneg, q)
  IN {p \in MidGrid : cutout[p] > threshold}

\* Lines 1226-1227.
AboveMain(q) ==
  LET threshold == _quantile(sorted_nonneg, q)
  IN {p \in MidGrid : cutout[p] >= threshold}

\* Line 1239: the assertion holds.
MainClumpAsserted(q) == maxval_pos \in AboveMain(q)

\* Lines 1220-1241, where the assertion holds.
MainClump(q) == LabelOf(AboveMain(q), maxval_pos)

RECURSIVE SumOver(_)
SumOver(S) ==
  IF S = {} THEN 0
  ELSE LET p == CHOOSE u \in S : TRUE IN cutout[p] + SumOver(S \ {p})

\* Lines 1243-1264: ratio - eta as <<num, den>>; the ratio is 1 when the
\* mean flux of the main clump is 0 (and then the flag is raised).
_segmap_mid_function(q) ==
  LET locs_main_clump == MainClump(q)
      total == SumOver(locs_main_clump)
      mean_flux_new_pixels ==
        _quantile(sorted_nonneg, q)
  IN IF total = 0
     THEN <<eta[2] - eta[1], eta[2]>>
     ELSE <<mean_flux_new_pixels * Cardinality(locs_main_clump) * eta[2]
              - eta[1] * total,
            total * eta[2]>>

\* mean_flux_main_clump == 0 at quantile q (line 1258).
MeanFluxZero(q) == SumOver(MainClump(q)) = 0

\* The quantiles that differ in their threshold, and 1.
MidQuantiles ==
  {<<j, Cardinality(segment)>> : j \in 0..Cardinality(segment)}

\* mode='reflect' of ndi.uniform_filter: the edge pixel is repeated.
Reflect(i, n) == IF i < 0 THEN 0 ELSE IF i >= n THEN n - 1 ELSE i

\* The number of pixels of S in the 3 x 3 window around p, each counted as
\* often as the window reads it.
WindowCount(S, p) ==
  Cardinality({d \in (-1..1) \X (-1..1) :
                 <<Reflect(p[1] + d[1], MidShape[1]),
                   Reflect(p[2] + d[2], MidShape[2])>> \in S})

\* Lines 1301-1304 with the threshold 0.5 met by equality too.
RegularisedAtLeastHalf(S) ==
  {p \in MidGrid :
     2 * WindowCount(S, p)
       >= boxcar_size_mid * boxcar_size_mid - 1}

\* Lines 1301-1304: the mean over the boxcar_size_mid x boxcar_size_mid
\* window is above 0.5.
Regularised(S) ==
  {p \in MidGrid :
     2 * WindowCount(S, p)
       > boxcar_size_mid * boxcar_size_mid}

\* Lines 1288-1291: g(0) decides between the original segmap and the root
\* search.
_segmap_mid_start ==
  /\ qpc = "start"
  /\ IF ~MainClumpAsserted(<<0, 1>>)
     THEN /\ qpc' = "raised"
          /\ UNCHANGED <<flag, segmap_mid>>
     ELSE IF Sign(_segmap_mid_function(<<0, 1>>)[1]) > 0
     THEN /\ flag' = 1
          /\ segmap_mid' = segment
          /\ qpc' = "done"
     ELSE /\ flag' = IF MeanFluxZero(<<0, 1>>) THEN 1 ELSE flag
          /\ qpc' = "brentq"
          /\ UNCHANGED segmap_mid
  /\ UNCHANGED <<cutout, sorted_nonneg, segment, eta, maxval_pos, q_root>>
  /\ UNCHANGED <<pipelineRest, radiusVars, batchVars, growthVars, variance,
                 petroVars, skyVars, midVars, halfVars, stampVars,
                 asymVars>>

\* Lines 1293-1318: opt.brentq evaluates the function over [0, 1] and
\* returns one of the quantiles; the main clump there is regularised, the
\* brightest pixel added and its region kept.
_segmap_mid_brentq ==
  /\ qpc = "brentq"
  /\ IF \/ \E q \in MidQuantiles : ~MainClumpAsserted(q)
        \/ /\ Sign(_segmap_mid_function(<<0, 1>>)[1]) < 0
           /\ Sign(_segmap_mid_function(<<1, 1>>)[1]) < 0
     THEN /\ qpc' = "raised"
          /\ UNCHANGED <<flag, segmap_mid, q_root>>
     ELSE \E q \in MidQuantiles :
            LET segmap == Regularised(MainClump(q))
            IN /\ q_root' = q
               /\ flag' = IF maxval_pos \notin segmap
                             \/ \E u \in MidQuantiles : MeanFluxZero(u)
                          THEN 1 ELSE flag
               /\ segmap_mid' = LabelOf(segmap \cup {maxval_pos}, maxval_pos)
               /\ qpc' = "done"
  /\ UNCHANGED <<cutout, sorted_nonneg, segment, eta, maxval_pos>>
  /\ UNCHANGED <<pipelineRest, radiusVars, batchVars, growthVars, variance,
                 petroVars, skyVars, midVars, halfVars, stampVars,
                 asymVars>>

InitSeg ==
  /\ qpc = "start"
  /\ segment \in Segments
  /\ cutout \in [MidGrid -> CutoutVals]
  /\ \A p \in MidGrid \ segment : cutout[p] = 0
  /\ sorted_nonneg = SortedVals(cutout, segment)
  /\ eta \in Etas
  /\ maxval_pos =
       FirstRowMajor({p \in segment :
                        \A u \in segment : cutout[u] <= cutout[p]})
  /\ segmap_mid = NoValue
  /\ q_root = NoValue
  /\ pc = "idle"
  /\ k = 1
  /\ flag = 0
  /\ flag_sersic = 0
  /\ cached = {}
  /\ val = [p \in Lazies |-> NoValue]
  /\ ncomp = [p \in Lazies |-> 0]
  /\ img = [x \in Pixels |-> 1]
  /\ ratio = DefaultRatio
  /\ faults = 0
  /\ lastRead = NoValue
  /\ RadiusIdle
  /\ BatchIdle
  /\ GrowthIdle
  /\ variance = <<>>
  /\ PetroIdle
  /\ SkyIdle
  /\ MidIdle
  /\ HalfIdle
  /\ StampIdle
  /\ AsymIdle

NextSeg ==
  \/ _segmap_mid_start
  \/ _segmap_mid_brentq

SpecSeg == InitSeg /\ [][NextSeg]_vars

\* ------------------------------------------- rmax and half_light_radius
\* Coordinates are doubled, so that the centre of pixel <<i, j>> is
\* <<2 i + 1, 2 j + 1>>.  The shape segmap has one or two pixels of the
\* 2 x 3 stamp; the asymmetry center lies in a pixel of the stamp or in
\* the pixel above its first one.
ShapeSegmaps == {S \in SUBSET MidGrid : Cardinality(S) \in {1, 2}}

AsymCenters == MidGrid \cup {<<-1, 0>>}

\* Line 1668 without the + 0.5.
CentreNoHalf(c) == <<2 * c[1], 2 * c[2]>>

\* Line 1668: np.floor(self._asymmetry_center) + 0.5.
Centre(c) == <<2 * c[1] + 1, 2 * c[2] + 1>>

\* Lines 1671-1672: four times the squared distance from the centre of
\* pixel p to the center.
Distance4(p, c) ==
  (2 * p[1] + 1 - Centre(c)[1]) * (2 * p[1] + 1 - Centre(c)[1])
    + (2 * p[2] + 1 - Centre(c)[2]) * (2 * p[2] + 1 - Centre(c)[2])

\* Lines 1657-1682.  rmax < 1 is rmax4 < 4; a failed assertion ends the
\* construction.
rmax_eval ==
  /\ hpc = "rmax"
  /\ LET d == {Distance4(p, asym_center) : p \in segmap_shape}
         m == CHOOSE x \in d : \A y \in d : y <= x
     IN /\ rmax4' = m
        /\ IF m < 4 /\ m # 0
           THEN hpc' = "assert" /\ UNCHANGED flag
           ELSE hpc' = "half" /\ flag' = IF m < 4 THEN 1 ELSE flag
  /\ UNCHANGED <<segmap_shape, asym_center, half_light>>
  /\ UNCHANGED <<pipelineRest, radiusVars, batchVars, growthVars, variance,
                 petroVars, skyVars, midVars, segVars, stampVars,
                 asymVars>>

\* Lines 1570-1574: 0 when rmax is 0, else the helper is called with
\* r_total = rmax and fraction = 0.5.
half_light_radius_call ==
  /\ hpc = "half"
  /\ IF rmax4 = 0
     THEN /\ half_light' = <<"zero", 0>>
          /\ hpc' = "done"
          /\ UNCHANGED rpc
     ELSE /\ rpc' = "start"
          /\ hpc' = "calling"
          /\ UNCHANGED half_light
  /\ UNCHANGED <<total_sum, curve, scan_i, r_min, r_max, rflag, ret>>
  /\ UNCHANGED <<segmap_shape, asym_center, rmax4>>
  /\ UNCHANGED <<pipelineVars, batchVars, growthVars, variance, petroVars,
                 skyVars, midVars, segVars, stampVars, asymVars>>

\* Lines 1574-1579 once the helper is back: the flag is merged and r is
\* returned as it is; the exception of line 99 ends the construction.
half_light_radius_return ==
  /\ hpc = "calling"
  /\ rpc \in {"returned", "raised"}
  /\ IF rpc = "raised"
     THEN /\ hpc' = "raised"
          /\ UNCHANGED <<flag, half_light>>
     ELSE /\ hpc' = "done"
          /\ flag' = MergeFlag(flag, rflag)
          /\ \E j \in {ret[2], ret[3]} :
               half_light' = IF ret[1] = "nan" THEN <<"nan", 0>>
                             ELSE <<"grid", j>>
  /\ UNCHANGED radiusVars
  /\ UNCHANGED <<segmap_shape, asym_center, rmax4>>
  /\ UNCHANGED <<pipelineRest, batchVars, growthVars, variance, petroVars,
                 skyVars, midVars, segVars, stampVars, asymVars>>

InitHalf ==
  /\ hpc = "rmax"
  /\ segmap_shape \in ShapeSegmaps
  /\ asym_center \in AsymCenters
  /\ rmax4 = 0
  /\ half_light = NoValue
  /\ rpc = "idle"
  /\ total_sum \in {0, 1}
  /\ curve \in Curves
  /\ scan_i = 0
  /\ r_min = <<>>
  /\ r_max = <<>>
  /\ rflag = 0
  /\ ret = NoValue
  /\ PipelineIdle
  /\ BatchIdle
  /\ GrowthIdle
  /\ variance = <<>>
  /\ PetroIdle
  /\ SkyIdle
  /\ MidIdle
  /\ SegIdle
  /\ StampIdle
  /\ AsymIdle

NextHalf ==
  \/ rmax_eval
  \/ half_light_radius_call
  \/ _radius_total_sum
  \/ _radius_scan
  \/ _radius_brentq
  \/ half_light_radius_return

SpecHalf == InitHalf /\ [][NextHalf]_vars

\* ---------------------------------------------------------- _slice_stamp
\* The image is ImageSide x ImageSide.  Along each axis: the lower edge
\* of the bounding box, the centroid pixel and the upper edge.
AxisBoxes ==
  {b \in (0..(ImageSide - 1)) \X (0..(ImageSide - 1)) \X (0..ImageSide) :
     b[1] <= b[2] /\ b[2] <= b[3]}

CutoutExtents == {<<1, 1>>, <<3, 2>>, <<7, 4>>}

\* int(x) of x = a / b >= 0 rounded to the nearest integer instead.
IntNearest(a, b) == (2 * a + b) \div (2 * b)

\* int(x) for x = a / b >= 0.
Truncate(a, b) == a \div b

\* Lines 373-388.
SliceStamp(pr) ==
  LET dist0 == Max(Max(pr.x[3] - pr.x[2], pr.x[2] - pr.x[1]),
                   Max(pr.y[3] - pr.y[2], pr.y[2] - pr.y[1]))
      dist == Truncate(dist0 * pr.cutout_extent[1], pr.cutout_extent[2])
  IN <<Max(0, pr.y[2] - dist), Min(pr.ny, pr.y[2] + dist + 1),
       Max(0, pr.x[2] - dist), Min(pr.nx, pr.x[2] + dist + 1)>>

_slice_stamp_eval ==
  /\ tpc = "start"
  /\ slice_stamp' = SliceStamp(props)
  /\ tpc' = "done"
  /\ UNCHANGED props
  /\ UNCHANGED <<pipelineVars, radiusVars, batchVars, growthVars, variance,
                 petroVars, skyVars, midVars, segVars, halfVars,
                 asymVars>>

InitStamp ==
  /\ tpc = "start"
  /\ props \in [ny : {ImageSide}, nx : {ImageSide}, y : AxisBoxes,
                x : AxisBoxes, cutout_extent : CutoutExtents]
  /\ slice_stamp = NoValue
  /\ PipelineIdle
  /\ RadiusIdle
  /\ BatchIdle
  /\ GrowthIdle
  /\ variance = <<>>
  /\ PetroIdle
  /\ SkyIdle
  /\ MidIdle
  /\ SegIdle
  /\ HalfIdle
  /\ AsymIdle

NextStamp == _slice_stamp_eval

SpecStamp == InitStamp /\ [][NextStamp]_vars

\* --------------------------------------------------- _asymmetry_function
\* A center is given by the pixel <<y, x>> that holds it and is taken at
\* the centre of that pixel, so that the rotation by 180 degrees maps
\* pixel p to pixel 2 c - p; pixels rotated in from outside the stamp are
\* 0.  The image is 1 on asym_image and 0 elsewhere.  An aperture holds
\* the pixels whose centres it holds.
AsymShape == <<2, 2>>

AsymGrid == (0..(AsymShape[1] - 1)) \X (0..(AsymShape[2] - 1))

AsymCells == ((-1)..AsymShape[1]) \X ((-1)..AsymShape[2])

AsymImages == {S \in SUBSET AsymGrid : Cardinality(S) <= 2}

Apertures == [r2 : {0, 2}, valid : BOOLEAN]

SkyAsymmetries == {NaN, <<1, 2>>}

Penalty == <<100, 1>>

\* Line 979 with > in place of >=.
OutOfBoundsPastEnd(c) ==
  c[2] < 0 \/ c[2] > AsymShape[2] \/ c[1] < 0 \/ c[1] > AsymShape[1]

\* Line 979.
OutOfBounds(c) ==
  c[2] < 0 \/ c[2] >= AsymShape[2] \/ c[1] < 0 \/ c[1] >= AsymShape[1]

Rotated(p, c) == <<2 * c[1] - p[1], 2 * c[2] - p[2]>>

\* Lines 989-992.
MaskSymmetric(c) == asym_mask \cup {p \in AsymGrid : Rotated(p, c) \in asym_mask}

\* Lines 993-994: image and image_180 at pixel p.
ImageAt(p, c) ==
  IF p \in asym_image /\ p \notin MaskSymmetric(c) THEN 1 ELSE 0

Image180At(p, c) ==
  IF Rotated(p, c) \in asym_image /\ p \notin MaskSymmetric(c) THEN 1 ELSE 0

\* Lines 996-1011: the pixels of the aperture (an annulus that leaves out
\* the central pixel for 'outer').
AperturePixels(c) ==
  {p \in AsymGrid :
     LET d2 == (p[1] - c[1]) * (p[1] - c[1]) + (p[2] - c[2]) * (p[2] - c[2])
     IN d2 <= aperture.r2 /\ (asym_kind = "outer" => d2 > 0)}

\* Lines 1003-1010: half_light_radius or rmax is NaN or not positive.
RadiiInvalid == asym_kind \in {"outer", "shape"} /\ ~aperture.valid

\* Lines 975-1033: the value returned, the flag raised and the number of
\* calls of do_photometry.
Asymmetry(c) ==
  IF OutOfBounds(c) THEN [v |-> Penalty, f |-> 1, n |-> 0]
  ELSE IF RadiiInvalid THEN [v |-> Sentinel, f |-> 1, n |-> 0]
  ELSE LET ap == AperturePixels(c)
           ap_abs_sum == Cardinality({p \in ap : ImageAt(p, c) = 1})
           ap_abs_diff ==
             Cardinality({p \in ap : ImageAt(p, c) # Image180At(p, c)})
           ap_area == Cardinality(ap \ MaskSymmetric(c))
       IN IF ap_abs_sum = 0 THEN [v |-> Sentinel, f |-> 1, n |-> 2]
          ELSE IF asym_kind # "shape" /\ IsFinite(sky_asym)
          THEN [v |-> <<ap_abs_diff * sky_asym[2] - ap_area * sky_asym[1],
                        ap_abs_sum * sky_asym[2]>>,
                f |-> 0, n |-> 3]
          ELSE [v |-> <<ap_abs_diff, ap_abs_sum>>, f |-> 0, n |-> 2]

\* opt.fmin evaluates the function at the initial guess (lines 1042-1044,
\* 1695-1696, 1723-1724).
fmin_start ==
  /\ apc = "start"
  /\ LET a == Asymmetry(center_0)
     IN /\ best' = <<center_0, a.v>>
        /\ last' = <<center_0, a.v, a.n>>
        /\ flag' = MergeFlag(flag, a.f)
  /\ apc' = "search"
  /\ UNCHANGED <<center_0, asym_image, asym_mask, asym_kind, aperture,
                 sky_asym>>
  /\ UNCHANGED <<pipelineRest, radiusVars, batchVars, growthVars, variance,
                 petroVars, skyVars, midVars, segVars, halfVars, stampVars>>

\* opt.fmin evaluates the function at another point and keeps it as its
\* best point if the value is lower.
fmin_try ==
  /\ apc = "search"
  /\ \E c \in AsymCells :
       LET a == Asymmetry(c)
       IN /\ last' = <<c, a.v, a.n>>
          /\ best' = IF Less(a.v, best[2]) THEN <<c, a.v>> ELSE best
          /\ flag' = MergeFlag(flag, a.f)
  /\ UNCHANGED <<apc, center_0, asym_image, asym_mask, asym_kind, aperture,
                 sky_asym>>
  /\ UNCHANGED <<pipelineRest, radiusVars, batchVars, growthVars, variance,
                 petroVars, skyVars, midVars, segVars, halfVars, stampVars>>

\* opt.fmin returns its best point.
fmin_return ==
  /\ apc = "search"
  /\ apc' = "done"
  /\ UNCHANGED <<center_0, asym_image, asym_mask, asym_kind, aperture,
                 sky_asym, best, last>>
  /\ UNCHANGED <<pipelineVars, radiusVars, batchVars, growthVars, variance,
                 petroVars, skyVars, midVars, segVars, halfVars, stampVars>>

InitAsym ==
  /\ apc = "start"
  /\ asym_image \in AsymImages
  /\ asym_mask \in {{}, {<<0, 0>>}}
  /\ asym_kind \in {"cas", "outer", "shape"}
  /\ aperture \in Apertures
  /\ sky_asym \in SkyAsymmetries
  /\ asym_kind = "cas" => aperture.valid
  /\ asym_kind = "shape" => sky_asym = NaN
  /\ center_0 \in AsymGrid
  /\ best = NoValue
  /\ last = NoValue
  /\ PipelineIdle
  /\ RadiusIdle
  /\ BatchIdle
  /\ GrowthIdle
  /\ variance = <<>>
  /\ PetroIdle
  /\ SkyIdle
  /\ MidIdle
  /\ SegIdle
  /\ HalfIdle
  /\ StampIdle

NextAsym ==
  \/ fmin_start
  \/ fmin_try
  \/ fmin_return

SpecAsym == InitAsym /\ [][NextAsym]_vars

\* ---------------------------------------------------------------- claims
\* C1: once the constructor has set flag and flag_sersic to 0, no step (a
\* stage's body in whatever order the lazy evaluation runs them, the
\* cross-check, a read) takes either flag from 1 back to 0.
C1_FlagsNeverCleared ==
  [][(flag = 1 => flag' = 1) /\ (flag_sersic = 1 => flag_sersic' = 1)]_vars

\* C1's case: a finished object with both flags up although its radii were
\* found with the helper's flag down and its segmaps agree.
C1_Witness ==
  /\ pc = "done"
  /\ flag = 1
  /\ flag_sersic = 1
  /\ val["concentration"] = Good
  /\ val["half_light_radius"] = Good
  /\ CheckSegmaps(val["_segmap_gini"], val["_segmap_mid"],
                  val["_segmap_shape_asym"], ratio) = 0

\* C2: on a finished object, the sentinel -99 in any of gini, m20,
\* sn_per_pixel, concentration, asymmetry, smoothness, deviation,
\* outer_asymmetry, shape_asymmetry comes with flag = 1.
C2_SentinelImpliesFlag ==
  pc = "done" =>
    \A q \in {"gini", "m20", "sn_per_pixel", "concentration", "asymmetry",
              "smoothness", "deviation", "outer_asymmetry",
              "shape_asymmetry"} :
      IsSentinel(val[q]) => flag = 1

\* C3: _radius_at_fraction_of_total never raises for a bracket failure; a
\* scan that runs off the grid returns a grid radius with the flag set.
C3_BracketFailureReturns ==
  /\ rpc # "raised"
  /\ rpc = "returned" /\ scan_i >= npoints =>
       rflag = 1 /\ ret[1] = "r_grid"

\* C4: every body runs at most once, a finished object holds each of the
\* 16 statistics computed exactly once, and a step on a finished object (a
\* read) hands out a held value and changes no flag and no statistic.
C4_ComputedOnce ==
  /\ [](\A p \in Lazies : ncomp[p] <= 1)
  /\ [](pc = "done" => \A q \in Statistics : q \in cached /\ ncomp[q] = 1)
  /\ [][pc = "done" =>
          /\ flag' = flag
          /\ flag_sersic' = flag_sersic
          /\ val' = val
          /\ cached' = cached
          /\ ncomp' = ncomp
          /\ \E q \in Statistics : lastRead' = val[q]]_vars

\* C4's case: a read of a finished object has handed out m20, the
\* sentinel.
C4_Witness ==
  /\ pc = "done"
  /\ lastRead = Sentinel
  /\ val["m20"] = Sentinel
  /\ \A q \in Statistics : ncomp[q] = 1

\* C5: the cross-check sets flag when the largest segmap area is 0;
\* otherwise it sets flag when overlap / area_max < segmap_overlap_ratio
\* and leaves flag as it was when overlap / area_max >= the ratio.
C5_CrossCheck ==
  [][pc = "check" /\ pc' = "done" =>
       LET g == val["_segmap_gini"]
           m == val["_segmap_mid"]
           s == val["_segmap_shape_asym"]
           areas == {Cardinality(g), Cardinality(m), Cardinality(s)}
           largest == CHOOSE a \in areas : \A b \in areas : b <= a
           common == Cardinality(g \cap m \cap s)
       IN /\ largest = 0 => flag' = 1
          /\ largest > 0 /\ common * ratio[2] < ratio[1] * largest
               => flag' = 1
          /\ largest > 0 /\ common * ratio[2] >= ratio[1] * largest
               => flag' = flag]_vars

\* C5's case: the cross-check has run with overlap / area_max equal to the
\* ratio 1/2 and has left the flag down.
C5_Witness ==
  /\ pc = "done"
  /\ flag = 0
  /\ ratio = <<1, 2>>
  /\ Cardinality(val["_segmap_gini"]) = 2
  /\ Cardinality(val["_segmap_gini"] \cap val["_segmap_mid"]
                   \cap val["_segmap_shape_asym"]) = 1

\* C6 as stated: for every ratio in [0, 1], three non-empty segmaps without
\* a pixel common to all force flag = 1, and three identical non-empty
\* segmaps leave flag as it was.
C6_EveryRatio ==
  [][pc = "check" /\ pc' = "done" =>
       LET g == val["_segmap_gini"]
           m == val["_segmap_mid"]
           s == val["_segmap_shape_asym"]
       IN /\ g # {} /\ m # {} /\ s # {} /\ g \cap m \cap s = {}
               => flag' = 1
          /\ g # {} /\ g = m /\ m = s => flag' = flag]_vars

\* C6 amended: for every ratio in (0, 1], three non-empty segmaps without a
\* pixel common to all force flag = 1; for every ratio in [0, 1], three
\* identical non-empty segmaps leave flag as it was.
C6_PositiveRatio ==
  [][pc = "check" /\ pc' = "done" =>
       LET g == val["_segmap_gini"]
           m == val["_segmap_mid"]
           s == val["_segmap_shape_asym"]
       IN /\ ratio[1] > 0 /\ g # {} /\ m # {} /\ s # {}
                /\ g \cap m \cap s = {}
               => flag' = 1
          /\ g # {} /\ g = m /\ m = s => flag' = flag]_vars

\* C6's case: the cross-check has run on three identical non-empty segmaps
\* with the ratio 1 and has left the flag down.
C6_Witness ==
  /\ pc = "done"
  /\ flag = 0
  /\ ratio = <<1, 1>>
  /\ val["_segmap_gini"] # {}
  /\ val["_segmap_gini"] = val["_segmap_mid"]
  /\ val["_segmap_mid"] = val["_segmap_shape_asym"]

\* C7: when the cross-check runs, all 16 statistics and the three segmaps
\* have been computed, and after it no body runs any more.
C7_CrossCheckLast ==
  /\ [][pc = "check" /\ pc' = "done" =>
          /\ \A q \in Statistics : q \in cached /\ ncomp[q] = 1
          /\ \A q \in Segmaps : q \in cached /\ ncomp[q] = 1]_vars
  /\ [][pc' = "done" => pc \in {"check", "done"}]_vars
  /\ [][pc = "done" => pc' = "done" /\ ncomp' = ncomp /\ val' = val]_vars

\* C7's case: the cross-check has run, after all 16 statistics were
\* computed, and has raised the flag over segmaps that disagree; nothing
\* has been read yet.
C7_Witness ==
  /\ pc = "done"
  /\ flag = 1
  /\ lastRead = NoValue
  /\ \A q \in Statistics : q \in cached /\ ncomp[q] = 1
  /\ CheckSegmaps(val["_segmap_gini"], val["_segmap_mid"],
                  val["_segmap_shape_asym"], ratio) = 1

C9_BatchEqualsAlone ==
  \A l \in Labels :
    l < label =>
      results[l] = Construct(l, caller_image0, caller_variance0,
                             variance_given, caller_mask, caller_segmap,
                             remove_outliers)

\* C10: with v_1 <= ... <= v_n the absolute values of the pixels in the
\* Gini segmap, gini is sum((2i - n - 1) v_i) / ((n - 1) sum(v_i)) and lies
\* in [0, 1] when n > 1 and the sum is positive; otherwise gini is -99 and
\* the flag is up.
C10_GiniFormula ==
  "gini" \in cached =>
    LET S == val["_segmap_gini"]
        n == Cardinality(S)
        order == CHOOSE s \in [1..n -> S] :
                   \A a, b \in 1..n :
                     a < b => s[a] # s[b] /\ Abs(img[s[a]]) <= Abs(img[s[b]])
        v == [j \in 1..n |-> Abs(img[order[j]])]
        total == SumSeq(v)
        num == SumSeq([j \in 1..n |-> (2 * j - n - 1) * v[j]])
        g == val["gini"]
    IN IF n > 1 /\ total > 0
       THEN /\ g[2] > 0
            /\ g[1] * (n - 1) * total = num * g[2]
            /\ 0 <= g[1]
            /\ g[1] <= g[2]
       ELSE g = Sentinel /\ flag = 1

\* C10's case: gini has been computed over three or more pixels, one of
\* them negative, and lies strictly between 0 and 1.
C10_Witness ==
  /\ "gini" \in cached
  /\ Cardinality(val["_segmap_gini"]) >= 3
  /\ \E x \in val["_segmap_gini"] : img[x] < 0
  /\ 0 < val["gini"][1]
  /\ val["gini"][1] < val["gini"][2]

\* C11: on a curve of growth that is strictly increasing in r, whenever
\* r_20 and r_80 are both valid (neither is the sentinel) r_80 > r_20, and
\* the concentration computed from them is positive.
C11_R80AboveR20 ==
  (/\ gpc \in {"concentration", "done"}
   /\ StrictlyIncreasing(growth)
   /\ cas.r_20 # Sentinel
   /\ cas.r_80 # Sentinel)
  => /\ cas.r_80 # NoValue
     /\ Less(cas.r_20, cas.r_80)
     /\ gpc = "done" => cas.C = <<1, 1>>

\* C11's case: both radii found between the same two radii of the grid,
\* on a strictly increasing curve.
C11_Witness ==
  /\ gpc = "done"
  /\ StrictlyIncreasing(growth)
  /\ growth.ap_sum[1] = 2
  /\ growth.ap_sum[2] = 18
  /\ cas.C = <<1, 1>>

\* The claim's test on pixel p of im, from the definitions of mean and
\* standard deviation: with v_1 .. v_8 the 8 neighbours and S their sum,
\* |x - S/8| > n_sigma_outlier * sqrt(sum_j (v_j - S/8)^2 / 8), that is
\* 8 * (8x - S)^2 > n_sigma_outlier^2 * sum_j (8 v_j - S)^2.
C12_Differs(im, p) ==
  LET v == [j \in 1..8 |-> im[Neighbour(p, j)][1]]
      S == SumSeq(v)
      x == im[p][1]
  IN 8 * (8 * x - S) * (8 * x - S)
       > n_sigma_outlier * n_sigma_outlier
           * SumSeq([j \in 1..8 |-> (8 * v[j] - S) * (8 * v[j] - S)])

C13_NegativeVarianceFlagged ==
  (/\ IsCached("sn_per_pixel")
   /\ variance # <<>>
   /\ \E x \in Pixels : variance[x] < 0)
  => /\ flag = 1
     /\ (\A x \in val["_segmap_gini"] : img[x] >= 0 => variance[x] # 0)
          /\ (\E x \in val["_segmap_gini"] : img[x] >= 0)
          /\ ~SkyEmpty
        => val["sn_per_pixel"] = Good

\* C14: for the circular and the elliptical solver, once the scan has been
\* through r_outer (its npoints-th radius) without a sign change, the
\* solver has raised the flag and returned r_outer as the Petrosian radius.
C14_BoundaryReturned ==
  (evals >= npoints /\ a_max = <<>>)
  => /\ ppc = "returned"
     /\ flag = 1
     /\ rpetro = <<"r", npoints - 1, npoints - 1>>

\* C15: the coarse scan of either solver evaluates the Petrosian function
\* at no more than 100 radii, none of them beyond r_outer.
C15_ScanBounded ==
  /\ evals <= npoints
  /\ ppc = "scan" => r_step <= npoints - 1

\* C16: when the scan stops at a sign change, r_min and r_max are two
\* consecutive radii of the scan, the function is above 0 at r_min and
\* below 0 at r_max, and r_max is the first radius below 0 that follows a
\* radius above 0; and a radius below 0 that no radius above 0 precedes
\* raises the flag and the scan goes on to the next radius.
C16_Bracket ==
  /\ [](a_max # <<>> =>
          /\ a_min # <<>>
          /\ a_max[1] = a_min[1] + 1
          /\ _petrosian_function(a_min[1]) > 0
          /\ _petrosian_function(a_max[1]) < 0
          /\ \A j \in 0..(a_max[1] - 1) :
               ~(/\ _petrosian_function(j) < 0
                 /\ \E i \in 0..(j - 1) : _petrosian_function(i) > 0))
  /\ [][(/\ ppc = "scan"
         /\ evals' = evals + 1
         /\ _petrosian_function(r_step) < 0
         /\ \A i \in 0..(r_step - 1) : _petrosian_function(i) <= 0)
        => /\ flag' = 1
           /\ ppc' = "scan"
           /\ r_step' = r_step + 1
           /\ a_max' = <<>>]_vars

\* C16's case: a scan that met radii below 0 first, was flagged, and then
\* stopped at a sign change; the root finder has returned.
C16_Witness ==
  /\ ppc = "returned"
  /\ rpetro[1] = "root"
  /\ profile.neg > 0
  /\ flag = 1
  /\ rpetro[3] = rpetro[2] + 1

\* C17: when a search finds no box of the current size, the size is halved
\* and the search retried only while skybox_size > border_size; a failed
\* search with skybox_size <= border_size (skybox_size = border_size
\* included) falls back to the fixed corner box and raises the flag.
C17_FallbackAtBorderSize ==
  [][(spc = "search" /\ FreeBoxes(stamp, border_size, skybox_size) = {})
     => IF skybox_size > border_size
        THEN /\ skybox_size' = skybox_size \div 2
             /\ spc' = "search"
             /\ flag' = flag
        ELSE /\ spc' = "returned"
             /\ boxslice' = <<border_size, border_size, skybox_size>>
             /\ flag' = 1
             /\ skybox_size' = skybox_size]_vars

\* The positions of a box of the given size that lies at least b pixels
\* inside every edge of the stamp, and is all background and unmasked.
C18_FreeInset(st, b, size) ==
  {c \in (b..(st.ny - b - size)) \X (b..(st.nx - b - size)) :
     BoxFree(st, c[1], c[2], size)}

\* C18: at each size tried, if some box lying at least border_size pixels
\* inside every edge of the stamp is all background and unmasked, the
\* search returns the first such position in row-major order, without
\* halving the size and without raising the flag.
C18_FirstFreeBox ==
  [][(spc = "search"
        /\ C18_FreeInset(stamp, border_size, skybox_size) # {})
     => /\ spc' = "returned"
        /\ boxslice' =
             <<FirstRowMajor(C18_FreeInset(stamp, border_size,
                                           skybox_size))[1],
               FirstRowMajor(C18_FreeInset(stamp, border_size,
                                           skybox_size))[2],
               skybox_size>>
        /\ skybox_size' = skybox_size
        /\ flag' = flag]_vars

\* C19: the sky test of _segmap_shape_asym compares the number of annulus
\* pixels with the square of the skybox_size option as configured; the
\* skybox search before it leaves the value of skybox_size unchanged.
C19_ConfiguredSkyboxSize ==
  spc = "shape" =>
    /\ skybox_size = skybox_size0
    /\ shape_sky.fallback
         = (shape_sky.area < skybox_size0 * skybox_size0)

\* Some quantile of the current scan splits the MID cutout into two or
\* more clumps.
C20_Split ==
  \E t \in ScanThresholds(mid_stepsize) :
    Cardinality(Components(AboveThreshold(t))) >= 2

\* The steps of the scans stage 1 can make: 0.02 halved up to five times.
C20_Steps == {<<1, 50 * 2^e>> : e \in 0..5}

\* C20: stage 1 of multimode always terminates: it starts with step 0.02,
\* every turn of its loop either leaves the loop or halves the step, and
\* the step of a scan is never below 0.02 / 32, so there are at most six
\* scans. A scan in which no sampled quantile splits the cutout halves the
\* step while the step is not below 1e-3; stage 1 gives up only with a
\* step below 1e-3 and no split at any sampled quantile, and then the flag
\* is 1 and M is 0.
C20_Stage1Terminates ==
  /\ mid_stepsize = <<1, 50>>
  /\ [](mid_stepsize \in C20_Steps)
  /\ [][mpc = "scan"
          => \/ mpc' \in {"stage2", "returned"}
             \/ /\ mpc' = "scan"
                /\ mid_stepsize' = <<1, 2 * mid_stepsize[2]>>]_vars
  /\ [][mpc # "scan" => UNCHANGED vars]_vars
  /\ [](mpc = "returned"
          => /\ flag = 1
             /\ multimode_M = <<0, 1>>
             /\ Less(mid_stepsize, MidStepMin)
             /\ ~C20_Split)
  /\ [][(mpc = "scan" /\ ~C20_Split /\ ~Less(mid_stepsize, MidStepMin))
          => /\ mid_stepsize' = <<mid_stepsize[1], 2 * mid_stepsize[2]>>
             /\ mpc' = "scan"
             /\ flag' = flag]_vars
  /\ [][(mpc = "scan" /\ C20_Split) => mpc' = "stage2" /\ flag' = flag]_vars

\* A single clump: stage 1 gave up after the scan with step 0.02 / 32.
C20_Witness ==
  /\ mpc = "returned"
  /\ mid_stepsize = <<1, 1600>>
  /\ multimode_M = <<0, 1>>
  /\ flag = 1

\* C21: the MID segmap holds the brightest pixel. When g(0) <= 0 it is one
\* 8-connected region: the pixels connected to the brightest pixel among
\* those whose 3 x 3 window mean over the main clump (at the quantile the
\* root finder returned) is above 0.5, the brightest pixel added; the flag
\* is raised if the brightest pixel was not among them. When g(0) > 0 it
\* is the whole non-background mask and the flag is raised.
C21_MidSegmap ==
  qpc = "done" =>
    /\ maxval_pos \in segmap_mid
    /\ IF Sign(_segmap_mid_function(<<0, 1>>)[1]) > 0
       THEN segmap_mid = segment /\ flag = 1
       ELSE LET clump == MainClump(q_root)
                smooth == {p \in MidGrid : 2 * WindowCount(clump, p) > 9}
            IN /\ segmap_mid = Grow(smooth \cup {maxval_pos}, {maxval_pos})
               /\ maxval_pos \notin smooth => flag = 1

\* The brightest pixel was smoothed away, added again, and is not alone.
C21_Witness ==
  /\ qpc = "done"
  /\ q_root # NoValue
  /\ 2 * WindowCount(MainClump(q_root), maxval_pos) <= 9
  /\ Cardinality(segmap_mid) >= 2
  /\ flag = 1

\* C28: at every quantile of [0, 1] the brightest pixel is at or above the
\* threshold (the assertion of the main clump holds), g(1) > 0, and the
\* root finder runs only when g(0) <= 0, so that no assertion and no
\* bracket error is raised.
C28_RootSearchWellPosed ==
  qpc # "idle" =>
    /\ \A q \in MidQuantiles :
         cutout[maxval_pos] >= _quantile(sorted_nonneg, q)
    /\ Sign(_segmap_mid_function(<<1, 1>>)[1]) > 0
    /\ qpc # "raised"
    /\ (qpc = "brentq" \/ q_root # NoValue)
         => Sign(_segmap_mid_function(<<0, 1>>)[1]) <= 0

\* The root finder ran on a bracket with g(0) < 0 < g(1).
C28_Witness ==
  /\ qpc = "done"
  /\ q_root # NoValue
  /\ Sign(_segmap_mid_function(<<0, 1>>)[1]) < 0
  /\ Sign(_segmap_mid_function(<<1, 1>>)[1]) > 0

\* C22: rmax is the largest distance from the centre of the pixel that
\* holds the asymmetry center to the centre of a pixel of the shape segmap;
\* rmax < 1 implies rmax = 0 (the assertion never fails), and then the flag
\* is raised.
C22_Rmax ==
  /\ hpc # "assert"
  /\ hpc \in {"half", "calling", "done", "raised"} =>
       /\ \A p \in segmap_shape :
            4 * ((p[1] - asym_center[1]) * (p[1] - asym_center[1])
                   + (p[2] - asym_center[2]) * (p[2] - asym_center[2]))
              <= rmax4
       /\ \E p \in segmap_shape :
            4 * ((p[1] - asym_center[1]) * (p[1] - asym_center[1])
                   + (p[2] - asym_center[2]) * (p[2] - asym_center[2]))
              = rmax4
       /\ rmax4 < 4 => rmax4 = 0 /\ flag = 1

\* The shape segmap is the one pixel that holds the center.
C22_Witness ==
  /\ hpc = "done"
  /\ rmax4 = 0
  /\ segmap_shape = {asym_center}
  /\ flag = 1

\* C23: half_light_radius is 0 when rmax is 0; otherwise it is a radius
\* of [0, rmax], or the sentinel with the flag raised when the flux within
\* rmax is not positive; it is never NaN and no exception is raised.
C23_HalfLightRadius ==
  /\ hpc # "raised"
  /\ hpc = "done" =>
       /\ rmax4 = 0 => half_light = <<"zero", 0>>
       /\ half_light[1] # "nan"
       /\ (rmax4 > 0 /\ total_sum <= 0)
            => half_light = <<"sentinel", 0>> /\ flag = 1
       /\ (rmax4 > 0 /\ total_sum > 0)
            => half_light[1] = "grid" /\ half_light[2] \in 0..(npoints - 1)

\* The largest distance from the centroid pixel to an edge of the bounding
\* box.
C24_MaxDistance ==
  CHOOSE d \in 0..ImageSide :
    /\ \A e \in {props.x[3] - props.x[2], props.x[2] - props.x[1],
                 props.y[3] - props.y[2], props.y[2] - props.y[1]} : e <= d
    /\ \E e \in {props.x[3] - props.x[2], props.x[2] - props.x[1],
                 props.y[3] - props.y[2], props.y[2] - props.y[1]} : e = d

\* The stamp of half-extent dist around the centroid pixel, clipped to the
\* image.
C24_Clipped(dist) ==
  /\ slice_stamp[1] = Max(0, props.y[2] - dist)
  /\ slice_stamp[2] = Min(props.ny, props.y[2] + dist + 1)
  /\ slice_stamp[3] = Max(0, props.x[2] - dist)
  /\ slice_stamp[4] = Min(props.nx, props.x[2] + dist + 1)
  /\ 0 <= slice_stamp[1] /\ slice_stamp[1] < slice_stamp[2]
  /\ slice_stamp[2] <= props.ny
  /\ 0 <= slice_stamp[3] /\ slice_stamp[3] < slice_stamp[4]
  /\ slice_stamp[4] <= props.nx

\* C24 as stated: the half-extent is cutout_extent * d rounded to the
\* nearest integer (either way at a half).
C24_RoundedExtent ==
  tpc = "done" =>
    \E dist \in 0..(3 * ImageSide) :
      /\ 2 * Abs(dist * props.cutout_extent[2]
                   - props.cutout_extent[1] * C24_MaxDistance)
           <= props.cutout_extent[2]
      /\ C24_Clipped(dist)

\* C24, amended: the half-extent is cutout_extent * d truncated to an
\* integer; the stamp covers rows yc - dist .. yc + dist and columns
\* xc - dist .. xc + dist clipped to the image, so it is not empty and
\* lies inside the image.
C24_TruncatedExtent ==
  tpc = "done" =>
    \E dist \in 0..(3 * ImageSide) :
      /\ dist * props.cutout_extent[2]
           <= props.cutout_extent[1] * C24_MaxDistance
      /\ props.cutout_extent[1] * C24_MaxDistance
           < (dist + 1) * props.cutout_extent[2]
      /\ C24_Clipped(dist)

\* cutout_extent * d = 1.75: rows yc - 1 .. yc + 1, and the columns
\* clipped at the first one.
C24_Witness ==
  /\ tpc = "done"
  /\ props.cutout_extent = <<7, 4>>
  /\ C24_MaxDistance = 1
  /\ slice_stamp[1] = props.y[2] - 1
  /\ slice_stamp[2] = props.y[2] + 2
  /\ props.x[2] = 0
  /\ slice_stamp[3] = 0

AsymmetryValid(c) == ~OutOfBounds(c) /\ Asymmetry(c).v # Sentinel

\* C26: a minimization whose initial guess has a valid asymmetry does not
\* end at a center where the asymmetry is invalid.
C26_EndsAtValidCenter ==
  (apc = "done" /\ AsymmetryValid(center_0)) => AsymmetryValid(best[1])
\* C27: when stage 2 ends at a point whose objective is no larger than the
\* lowest ratio of stage 1, that point is a quantile in [0, 1], the cutout
\* has at least two clumps there, and multimode returns M = A2 / A1 with
\* 0 < M <= 1.
C27_FinalQuantile ==
  (q_final # NoValue /\ ~Less(RatioMin, MultimodeObjective(q_final)))
    => /\ ~OutOfRange(q_final)
       /\ Len(_multimode_function(_quantile(_sorted_pixelvals_mid, q_final)))
            >= 2
       /\ mpc = "returned"
       /\ Less(<<0, 1>>, multimode_M)
       /\ ~Less(<<1, 1>>, multimode_M)

\* Stage 2 has ended, no higher than stage 1, at a quantile with a clump
\* of two pixels and one of one pixel.
C27_Witness ==
  /\ mpc = "returned"
  /\ q_final # NoValue
  /\ ~Less(RatioMin, MultimodeObjective(q_final))
  /\ multimode_M = <<1, 2>>
\* C29: when no variance array is supplied, sn_per_pixel raises no
\* exception, and its value is the mean of flux / sky_sigma over the
\* non-negative pixels of the Gini segmap, or the sentinel with the flag
\* when that is not finite.
C29_MissingVariance ==
  variance = <<>>
    => /\ pc # "raised"
       /\ IsCached("sn_per_pixel")
            => \/ val["sn_per_pixel"] = Good
               \/ val["sn_per_pixel"] = Sentinel /\ flag = 1
\* floor(log2(n)) for n >= 1.
RECURSIVE C30_Log2(_)
C30_Log2(n) == IF n <= 1 THEN 0 ELSE 1 + C30_Log2(n \div 2)

\* The sizes that at most floor(log2(skybox_size)) + 1 halvings lead to.
C30_Sizes == {skybox_size0 \div 2^e : e \in 0..(C30_Log2(skybox_size0) + 1)}

\* C30: the skybox search terminates.  Every turn of the loop changes the
\* state, and either returns or halves a box size that is at least 1, so
\* the size never increases and is halved at most
\* floor(log2(skybox_size)) + 1 times; the search ends with a free box, or
\* with the flagged corner box, or with the flagged empty box when the
\* stamp is smaller than twice the border.
C30_SearchTerminates ==
  /\ [](spc = "search" => ENABLED <<_slice_skybox_search>>_vars)
  /\ [][skybox_size' <= skybox_size]_vars
  /\ [](skybox_size \in C30_Sizes)
  /\ [][(spc = "search" /\ spc' = "search")
          => /\ skybox_size >= 1
             /\ skybox_size' = skybox_size \div 2]_vars
  /\ [][spc = "search" => spc' \in {"search", "returned"}]_vars
  /\ [](spc = "returned"
          => \/ /\ boxslice[3] = skybox_size
                /\ BoxFree(stamp, boxslice[1], boxslice[2], boxslice[3])
             \/ /\ flag = 1
                /\ boxslice = <<border_size, border_size, skybox_size>>
             \/ /\ flag = 1
                /\ boxslice = <<0, 0, 0>>
                /\ (stamp.nx < 2 * border_size \/ stamp.ny < 2 * border_size))

\* The search has ended after floor(log2(4)) + 1 = 3 halvings, without a
\* border.
C30_Witness ==
  /\ spc = "returned"
  /\ border_size = 0
  /\ skybox_size0 = 4
  /\ skybox_size = 0
====
